---- MODULE Spec2Model ----
(***************************************************************************)
(* restgen: the regeneration merge engine (internal/merger) and the part   *)
(* of `restgen generate` that drives it.                                   *)
(*                                                                         *)
(* A source text is a sequence of tokens.  A token is a record [t, n]: t   *)
(* is the kind of the lexical chunk and n the identifier it carries (the   *)
(* method name of a signature, the name in an archive header, ...).  Every *)
(* chunk the merger looks into is a token of its own: the two marker       *)
(* lines, braces, newlines, comment openers and closers, method            *)
(* signatures, statements.  A token other than "{" and "}" stands for a    *)
(* chunk of text whose own braces are balanced; a statement token carries  *)
(* the line break that ends it, so nl tokens stand only where the merger   *)
(* writes, trims or skips white space.  The texts are:                     *)
(*                                                                         *)
(*   nl                 "\n"                                               *)
(*   marker             // --- RESTGEN MARKER (do not edit above) ---      *)
(*   removedMarker      // --- REMOVED HANDLERS ---                        *)
(*   pre                header comment, package clause, imports            *)
(*   typeHandlerStruct  type XHandler struct                               *)
(*   cmtDeps            // add dependencies here                           *)
(*   cmtDepsNote        // add dependencies here (preserved on regen)      *)
(*   field n            n *Dep                                             *)
(*   ctor               type XParam ... func NewXHandler(...) {...}        *)
(*   sig n              func (h *XHandler) n(w http.ResponseWriter, ...)   *)
(*   funcPlain n        func n()                                           *)
(*   retBase            return "/base"                                     *)
(*   newRouter          r := chi.NewRouter(); h.applyMiddleware(r)         *)
(*   route n            r.Get("/", h.n)                                    *)
(*   retRouter          return r                                           *)
(*   cmtExample         // Example: // r.Use(middleware.RequestID) ...     *)
(*   use n              r.Use(n)                                           *)
(*   retMap             return map[string][]func(http.Handler) http.Handler*)
(*   cmtPost            // "POST /": {rateLimiter},                        *)
(*   mwEntry n          "GET /": {n},                                      *)
(*   hdrImpl            // ====  // HANDLER IMPLEMENTATIONS  // ====       *)
(*   cmtRemoved n       // n was removed from schema                       *)
(*   cmtPreserved       // Preserved implementation:                       *)
(*   /*   */            block comment opener and closer                    *)
(*   cmt n              // n                                               *)
(*   cmtNotImpl         // was: http.StatusNotImplemented                  *)
(*   declTarget         var input models.T                                 *)
(*   declUser           var rows = h.db.Query()                            *)
(*   newDecoder         decoder := schema.NewDecoder()                     *)
(*   assignUser         res, err := h.svc.Do(r)                            *)
(*   ignoreUnknown      decoder.IgnoreUnknownKeys(true)                    *)
(*   callUser           h.log.Info("called")                               *)
(*   writeNotImpl       shared.WriteResponse(w, http.StatusNotImplemented, *)
(*                        &shared.ApiResponse[T]{Message: "..."})          *)
(*   writeLocalNI       writeResponse(w, http.StatusNotImplemented, nil)   *)
(*   failNI             h.fail(w, http.StatusNotImplemented)               *)
(*   writeBad           shared.WriteResponse(w, http.StatusBadRequest, ..) *)
(*   writeOK            shared.WriteResponse(w, http.StatusOK, ...)        *)
(*   ifDecode           if err := json.NewDecoder(r.Body).Decode(&input);  *)
(*                        err != nil                                       *)
(*   ifDecodeWrapped    if err := check(decoder.Decode(&q)); err != nil    *)
(*   ifUser             if err != nil                                      *)
(*   ifUserInit         if err := h.svc.Do(r); err != nil                  *)
(*   return             return                                             *)
(*   garbage            )(                                                 *)
(***************************************************************************)
EXTENDS Integers, Sequences, FiniteSets, TLC

Tok(t) == [t |-> t, n |-> ""]

TokN(t, n) == [t |-> t, n |-> n]

nl == Tok("nl")

marker == Tok("marker")

removedMarker == Tok("removedMarker")

(***************************************************************************)
(* Helpers on token sequences (strings.Index, strings.TrimSpace, ...).     *)
(***************************************************************************)
RECURSIVE IndexFrom(_, _, _)
\* strings.Index(content[from:], tok): the first position >= from holding
\* tok, 0 when there is none (Go's -1).
IndexFrom(content, from, tok) ==
    IF from > Len(content) THEN 0
    ELSE IF content[from] = tok THEN from
    ELSE IndexFrom(content, from + 1, tok)

Index(content, tok) == IndexFrom(content, 1, tok)

RECURSIVE LastIndexFrom(_, _, _)
LastIndexFrom(content, from, tok) ==
    IF from < 1 THEN 0
    ELSE IF content[from] = tok THEN from
    ELSE LastIndexFrom(content, from - 1, tok)

LastIndex(content, tok) == LastIndexFrom(content, Len(content), tok)

RECURSIVE TrimLeft(_)
TrimLeft(s) == IF s # <<>> /\ Head(s) = nl THEN TrimLeft(Tail(s)) ELSE s

RECURSIVE TrimRight(_)
TrimRight(s) ==
    IF s # <<>> /\ s[Len(s)] = nl THEN TrimRight(SubSeq(s, 1, Len(s) - 1)) ELSE s

TrimSpace(s) == TrimRight(TrimLeft(s))

\* sub occurs in s starting at position i
OccursAt(s, sub, i) ==
    /\ i >= 1
    /\ i + Len(sub) - 1 <= Len(s)
    /\ \A k \in 1..Len(sub) : s[i + k - 1] = sub[k]

\* strings.Contains on token sequences
IsInfix(sub, s) == \E i \in 1..(Len(s) + 1) : OccursAt(s, sub, i)

\* the number of places where sub occurs in s
Occurrences(sub, s) == Cardinality({i \in 1..Len(s) : OccursAt(s, sub, i)})

\* strings.Replace(s, old, new, 1)
ReplaceFirst(s, old, new) ==
    IF ~IsInfix(old, s) THEN s
    ELSE LET i == CHOOSE k \in 1..(Len(s) + 1) :
                     OccursAt(s, old, k) /\ \A j \in 1..(k - 1) : ~OccursAt(s, old, j)
         IN SubSeq(s, 1, i - 1) \o new \o SubSeq(s, i + Len(old), Len(s))

RECURSIVE Flatten(_)
Flatten(ss) == IF ss = <<>> THEN <<>> ELSE Head(ss) \o Flatten(Tail(ss))

Range(s) == {s[i] : i \in DOMAIN s}

\* the sequences that list every element of the set S once
Perms(S) ==
    {p \in [1..Cardinality(S) -> S] : \A i, j \in 1..Cardinality(S) : p[i] = p[j] => i = j}

(***************************************************************************)
(* Region extractor.                                                       *)
(***************************************************************************)
\* A splitter that takes a text without the marker as the region below it.
splitAtMarkerAllBelow(content) ==
    LET idx == Index(content, marker)
    IN IF idx = 0
       THEN [above |-> <<>>, below |-> content]
       ELSE [above |-> SubSeq(content, 1, idx - 1),
             below |-> SubSeq(content, idx + 1, Len(content))]

splitAtMarker(content) ==
    LET idx == Index(content, marker)
    IN IF idx = 0
       THEN [above |-> content, below |-> <<>>]
       ELSE [above |-> SubSeq(content, 1, idx - 1),
             below |-> SubSeq(content, idx + 1, Len(content))]

RECURSIVE matchBrace(_, _, _, _)
\* The depth-counting loop that follows an opening brace: the position of
\* the brace that closes it, scanning from i at the given depth; braceIdx
\* (the opening brace itself) when the text ends first, which is the
\* code's initial bodyEnd = braceIdx + 1.
matchBrace(content, i, depth, braceIdx) ==
    IF i > Len(content) THEN braceIdx
    ELSE IF content[i].t = "{" THEN matchBrace(content, i + 1, depth + 1, braceIdx)
    ELSE IF content[i].t = "}"
         THEN IF depth = 1 THEN i ELSE matchBrace(content, i + 1, depth - 1, braceIdx)
    ELSE matchBrace(content, i + 1, depth, braceIdx)

RECURSIVE methodsFrom(_, _)
\* The loop over the matches of `func \(h \*\w+Handler\) (\w+)\(`: each
\* "sig" token is one match.
methodsFrom(content, i) ==
    IF i > Len(content) THEN <<>>
    ELSE IF content[i].t # "sig" THEN methodsFrom(content, i + 1)
    ELSE LET braceIdx == IndexFrom(content, i, Tok("{"))
         IN IF braceIdx = 0 THEN methodsFrom(content, i + 1)
            ELSE <<[name |-> content[i].n,
                    content |-> SubSeq(content, i,
                                       matchBrace(content, braceIdx + 1, 1, braceIdx))]>>
                 \o methodsFrom(content, i + 1)

extractMethodsOrdered(content) == methodsFrom(content, 1)

\* the methods in front of the removed-handlers marker only
extractMethodsLive(content) ==
    LET live == IF Index(content, removedMarker) = 0 THEN content
                ELSE SubSeq(content, 1, Index(content, removedMarker) - 1)
        ms == extractMethodsOrdered(live)
        last(name) == CHOOSE i \in DOMAIN ms :
                          ms[i].name = name /\ \A j \in DOMAIN ms : ms[j].name = name => j <= i
    IN [name \in {ms[i].name : i \in DOMAIN ms} |-> ms[last(name)].content]

\* The map from method name to implementation: a later block of the same
\* name overwrites an earlier one.
extractMethods(content) ==
    LET ms == extractMethodsOrdered(content)
        last(name) == CHOOSE i \in DOMAIN ms :
                          ms[i].name = name /\ \A j \in DOMAIN ms : ms[j].name = name => j <= i
    IN [name \in {ms[i].name : i \in DOMAIN ms} |-> ms[last(name)].content]

\* Character classes of the archive pattern, per token.
HasSlash(tok) ==
    tok.t \in {"marker", "removedMarker", "cmtDeps", "cmtDepsNote", "cmtExample", "cmtPost",
               "mwEntry", "hdrImpl", "cmtRemoved", "cmtPreserved", "/*", "*/", "cmt",
               "cmtNotImpl", "retBase", "route"}

HasStar(tok) ==
    tok.t \in {"sig", "field", "ctor", "/*", "*/", "writeNotImpl", "writeBad", "writeOK"}

\* the tokens whose text starts with "func "
StartsFunc(tok) == tok.t \in {"sig", "funcPlain"}

\* the character classes [^/], \s and [^*] of the patterns, on tokens
InClass(tok, class) ==
    CASE class = "noSlash" -> ~HasSlash(tok)
      [] class = "space" -> tok = nl
      [] class = "noStar" -> ~HasStar(tok)

RECURSIVE skipWhile(_, _, _)
\* the first position >= i whose token is outside the class (Len + 1 when
\* none is): the end of a greedy class*
skipWhile(s, i, class) ==
    IF i <= Len(s) /\ InClass(s[i], class) THEN skipWhile(s, i + 1, class) ELSE i

\* One attempt of the pattern
\*   // (\w+) was removed from schema[^/]*/\*\s*(func [^*]+)\*/
\* at position i: [ok, name, content, end].
removedMatchAt(s, i) ==
    LET open == skipWhile(s, i + 1, "noSlash")
        fn == skipWhile(s, open + 1, "space")
        close == skipWhile(s, fn, "noStar")
        ok == /\ s[i].t = "cmtRemoved"
              /\ open <= Len(s) /\ s[open].t = "/*"
              /\ fn <= Len(s) /\ StartsFunc(s[fn]) /\ ~HasStar(s[fn])
              /\ close <= Len(s) /\ s[close].t = "*/"
    IN IF ok
       THEN [ok |-> TRUE, name |-> s[i].n, content |-> SubSeq(s, fn, close - 1), end |-> close]
       ELSE [ok |-> FALSE, name |-> "", content |-> <<>>, end |-> i]

RECURSIVE removedFrom(_, _)
\* FindAllStringSubmatch: leftmost matches, none overlapping
removedFrom(s, i) ==
    IF i > Len(s) THEN <<>>
    ELSE LET m == removedMatchAt(s, i)
         IN IF m.ok
            THEN <<[name |-> m.name, content |-> TrimSpace(m.content)]>>
                 \o removedFrom(s, m.end + 1)
            ELSE removedFrom(s, i + 1)

RECURSIVE entriesFrom(_, _)
\* the entries under the headers the merger writes, from position i on
entriesFrom(s, i) ==
    LET h == IF i > Len(s) THEN 0
             ELSE CHOOSE k \in (i..Len(s)) \cup {0} :
                      /\ k # 0 => s[k].t = "cmtRemoved"
                      /\ \A m \in i..Len(s) : s[m].t = "cmtRemoved" => (k # 0 /\ k <= m)
        close == IF h = 0 THEN 0 ELSE IndexFrom(s, h, Tok("*/"))
    IN IF h = 0 \/ close = 0 THEN <<>>
       ELSE <<[name |-> s[h].n, content |-> SubSeq(s, h + 6, close - 2)]>>
            \o entriesFrom(s, close + 1)

\* a removed-section reader that reads the entries as the merger writes them
extractRemovedSectionWritten(content) ==
    LET idx == Index(content, removedMarker)
    IN IF idx = 0 THEN <<>>
       ELSE entriesFrom(SubSeq(content, idx + 1, Len(content)), 1)

extractRemovedSection(content) ==
    LET idx == Index(content, removedMarker)
    IN IF idx = 0 THEN <<>>
       ELSE removedFrom(SubSeq(content, idx + 1, Len(content)), 1)

(***************************************************************************)
(* Handler struct of the above-marker region.                              *)
(***************************************************************************)
RECURSIVE structStart(_, _)
\* the first match of `type\s+\w+Handler\s+struct\s*\{`: [start, brace],
\* start = 0 when there is none
structStart(content, i) ==
    IF i > Len(content) THEN [start |-> 0, brace |-> 0]
    ELSE IF content[i].t = "typeHandlerStruct"
         THEN LET b == skipWhile(content, i + 1, "space")
              IN IF b <= Len(content) /\ content[b].t = "{"
                 THEN [start |-> i, brace |-> b]
                 ELSE structStart(content, i + 1)
    ELSE structStart(content, i + 1)

extractHandlerStruct(content) ==
    LET m == structStart(content, 1)
    IN IF m.start = 0 THEN <<>>
       ELSE SubSeq(content, m.start, matchBrace(content, m.brace + 1, 1, m.brace))

\* an emptiness test that looks for the default comment anywhere in the struct
isEmptyHandlerStructComment(structDef) == IsInfix(<<Tok("cmtDeps")>>, structDef)

\* The text of cmtDepsNote starts with the text of cmtDeps and goes on.
isEmptyHandlerStruct(structDef) ==
    LET open == Index(structDef, Tok("{"))
        in1 == IF open # 0 THEN SubSeq(structDef, open + 1, Len(structDef)) ELSE structDef
        close == LastIndex(in1, Tok("}"))
        in2 == IF close # 0 THEN SubSeq(in1, 1, close - 1) ELSE in1
        inner == TrimSpace(in2)
    IN \/ inner = <<>>
       \/ inner = <<Tok("cmtDeps")>>
       \/ (inner # <<>> /\ Head(inner) = Tok("cmtDeps") /\ TrimSpace(Tail(inner)) = <<>>)

preserveHandlerStructFields(generated, existing) ==
    LET existingStruct == extractHandlerStruct(existing)
        generatedStruct == extractHandlerStruct(generated)
    IN IF existingStruct = <<>> THEN generated
       ELSE IF isEmptyHandlerStruct(existingStruct) THEN generated
       ELSE IF generatedStruct = <<>> THEN generated
       ELSE ReplaceFirst(generated, generatedStruct, existingStruct)

(***************************************************************************)
(* go/parser on the token texts: the syntax tree isGeneratedStub reads.    *)
(* A statement token carries its own terminator; comments and newlines     *)
(* leave no node.                                                          *)
(***************************************************************************)
Ident(name) == [k |-> "Ident", name |-> name]

Sel(x, sel) == [k |-> "SelectorExpr", x |-> x, sel |-> sel]

Call(fun, args) == [k |-> "CallExpr", fun |-> fun, args |-> args]

\* a literal, a unary or a composite expression
OtherExpr == [k |-> "Other"]

NoStmt == [s |-> "nil"]

StatusArg(status) == <<Ident("w"), Sel(Ident("http"), status), OtherExpr>>

SvcCall == Call(Sel(Sel(Ident("h"), "svc"), "Do"), <<Ident("r")>>)

SimpleKinds ==
    {"declTarget", "declUser", "newDecoder", "assignUser", "ignoreUnknown", "callUser",
     "writeNotImpl", "writeLocalNI", "failNI", "writeBad", "writeOK", "return"}

IfKinds == {"ifDecode", "ifDecodeWrapped", "ifUser", "ifUserInit"}

CommentKinds == {"nl", "cmt", "cmtNotImpl"}

\* the statement node of a statement token that has no block
SimpleStmt(tok) ==
    CASE tok.t \in {"declTarget", "declUser"} -> [s |-> "DeclStmt"]
      [] tok.t = "newDecoder" ->
           [s |-> "AssignStmt", rhs |-> <<Call(Sel(Ident("schema"), "NewDecoder"), <<>>)>>]
      [] tok.t = "assignUser" -> [s |-> "AssignStmt", rhs |-> <<SvcCall>>]
      [] tok.t = "ignoreUnknown" ->
           [s |-> "ExprStmt",
            x |-> Call(Sel(Ident("decoder"), "IgnoreUnknownKeys"), <<Ident("true")>>)]
      [] tok.t = "callUser" ->
           [s |-> "ExprStmt", x |-> Call(Sel(Sel(Ident("h"), "log"), "Info"), <<OtherExpr>>)]
      [] tok.t = "writeNotImpl" ->
           [s |-> "ExprStmt",
            x |-> Call(Sel(Ident("shared"), "WriteResponse"), StatusArg("StatusNotImplemented"))]
      [] tok.t = "writeLocalNI" ->
           [s |-> "ExprStmt",
            x |-> Call(Ident("writeResponse"), StatusArg("StatusNotImplemented"))]
      [] tok.t = "failNI" ->
           [s |-> "ExprStmt",
            x |-> Call(Sel(Ident("h"), "fail"), StatusArg("StatusNotImplemented"))]
      [] tok.t = "writeBad" ->
           [s |-> "ExprStmt",
            x |-> Call(Sel(Ident("shared"), "WriteResponse"), StatusArg("StatusBadRequest"))]
      [] tok.t = "writeOK" ->
           [s |-> "ExprStmt",
            x |-> Call(Sel(Ident("shared"), "WriteResponse"), StatusArg("StatusOK"))]
      [] tok.t = "return" -> [s |-> "ReturnStmt"]

\* the Init of the if statement an if token opens
IfInit(tok) ==
    CASE tok.t = "ifDecode" ->
           [s |-> "AssignStmt",
            rhs |-> <<Call(Sel(Call(Sel(Ident("json"), "NewDecoder"),
                                    <<Sel(Ident("r"), "Body")>>), "Decode"),
                           <<OtherExpr>>)>>]
      [] tok.t = "ifDecodeWrapped" ->
           [s |-> "AssignStmt",
            rhs |-> <<Call(Ident("check"),
                           <<Call(Sel(Ident("decoder"), "Decode"), <<OtherExpr>>)>>)>>]
      [] tok.t = "ifUser" -> NoStmt
      [] tok.t = "ifUserInit" -> [s |-> "AssignStmt", rhs |-> <<SvcCall>>]

RECURSIVE parseStmts(_, _)
\* The statement list of a block from position i to the brace that closes
\* the block: [ok, stmts, next], next the position of that brace.
parseStmts(toks, i) ==
    IF i > Len(toks) THEN [ok |-> FALSE, stmts |-> <<>>, next |-> i]
    ELSE IF toks[i].t = "}" THEN [ok |-> TRUE, stmts |-> <<>>, next |-> i]
    ELSE IF toks[i].t \in CommentKinds THEN parseStmts(toks, i + 1)
    ELSE IF toks[i].t \in SimpleKinds
         THEN LET rest == parseStmts(toks, i + 1)
              IN [rest EXCEPT !.stmts = <<SimpleStmt(toks[i])>> \o @]
    ELSE IF toks[i].t \in IfKinds /\ i < Len(toks) /\ toks[i + 1].t = "{"
         THEN LET inner == parseStmts(toks, i + 2)
              IN IF ~inner.ok THEN inner
                 ELSE LET rest == parseStmts(toks, inner.next + 1)
                      IN [rest EXCEPT !.stmts =
                              <<[s |-> "IfStmt", init |-> IfInit(toks[i]),
                                 body |-> inner.stmts]>> \o @]
    ELSE [ok |-> FALSE, stmts |-> <<>>, next |-> i]

RECURSIVE parseDecls(_, _)
\* The declarations of a file from position i: [ok, decls].
parseDecls(toks, i) ==
    IF i > Len(toks) THEN [ok |-> TRUE, decls |-> <<>>]
    ELSE IF toks[i].t \in CommentKinds THEN parseDecls(toks, i + 1)
    ELSE IF toks[i].t \in {"declTarget", "declUser"}
         THEN LET rest == parseDecls(toks, i + 1)
              IN [rest EXCEPT !.decls = <<[d |-> "GenDecl"]>> \o @]
    ELSE IF toks[i].t \in {"sig", "funcPlain"}
         THEN IF i < Len(toks) /\ toks[i + 1].t = "{"
              THEN LET body == parseStmts(toks, i + 2)
                   IN IF ~body.ok THEN [ok |-> FALSE, decls |-> <<>>]
                      ELSE LET rest == parseDecls(toks, body.next + 1)
                           IN [rest EXCEPT !.decls =
                                   <<[d |-> "FuncDecl", hasBody |-> TRUE,
                                      body |-> body.stmts]>> \o @]
              ELSE LET rest == parseDecls(toks, i + 1)
                   IN [rest EXCEPT !.decls =
                           <<[d |-> "FuncDecl", hasBody |-> FALSE, body |-> <<>>]>> \o @]
    ELSE [ok |-> FALSE, decls |-> <<>>]

\* parser.ParseFile(fset, "", "package stub\n" + impl, parser.ParseComments)
ParseFile(impl) == parseDecls(impl, 1)

(***************************************************************************)
(* Stub classifier.                                                        *)
(***************************************************************************)
\* the tokens whose text contains "StatusNotImplemented"
MentionsNotImplemented(tok) == tok.t \in {"writeNotImpl", "writeLocalNI", "failNI", "cmtNotImpl"}

isNotImplementedResponse(stmt) ==
    /\ stmt.s = "ExprStmt"
    /\ stmt.x.k = "CallExpr"
    /\ CASE stmt.x.fun.k = "SelectorExpr" -> stmt.x.fun.sel = "WriteResponse"
         [] stmt.x.fun.k = "Ident" -> stmt.x.fun.name \in {"writeResponse", "WriteResponse"}
         [] OTHER -> FALSE
    /\ Len(stmt.x.args) >= 2
    /\ stmt.x.args[2].k = "SelectorExpr"
    /\ stmt.x.args[2].sel = "StatusNotImplemented"

containsDecoderSetup(expr) ==
    /\ expr.k = "CallExpr"
    /\ expr.fun.k = "SelectorExpr"
    /\ expr.fun.sel = "NewDecoder"

RECURSIVE containsDecodeCall(_)
containsDecodeCall(expr) ==
    CASE expr.k = "CallExpr" ->
           \/ (expr.fun.k = "SelectorExpr" /\ expr.fun.sel = "Decode")
           \/ containsDecodeCall(expr.fun)
           \/ \E i \in DOMAIN expr.args : containsDecodeCall(expr.args[i])
      [] expr.k = "SelectorExpr" -> containsDecodeCall(expr.x)
      [] OTHER -> FALSE

isDecodeErrorIf(stmt) ==
    /\ stmt.init.s # "nil"
    /\ stmt.init.s = "AssignStmt"
    /\ \E i \in DOMAIN stmt.init.rhs :
          /\ containsDecodeCall(stmt.init.rhs[i])
          /\ Len(stmt.body) > 0
          /\ stmt.body[Len(stmt.body)].s = "ReturnStmt"

isDecodeRelatedStatement(stmt) ==
    CASE stmt.s = "DeclStmt" -> TRUE
      [] stmt.s = "AssignStmt" -> \E i \in DOMAIN stmt.rhs : containsDecoderSetup(stmt.rhs[i])
      [] stmt.s = "ExprStmt" ->
           /\ stmt.x.k = "CallExpr"
           /\ stmt.x.fun.k = "SelectorExpr"
           /\ stmt.x.fun.sel = "IgnoreUnknownKeys"
      [] stmt.s = "IfStmt" -> isDecodeErrorIf(stmt)
      [] OTHER -> FALSE

\* a classifier that takes a text it cannot parse for a stub
isGeneratedStubUnparsed(impl) ==
    LET f == ParseFile(impl)
        funcs == {i \in DOMAIN f.decls : f.decls[i].d = "FuncDecl"}
    IN /\ \E i \in DOMAIN impl : MentionsNotImplemented(impl[i])
       /\ \/ ~f.ok
          \/ /\ funcs # {}
             /\ LET funcDecl == f.decls[CHOOSE i \in funcs : \A j \in funcs : i <= j]
                    statements == funcDecl.body
                IN /\ funcDecl.hasBody
                   /\ Len(statements) > 0
                   /\ isNotImplementedResponse(statements[Len(statements)])
                   /\ \A i \in 1..(Len(statements) - 1) :
                          isDecodeRelatedStatement(statements[i])

\* a classifier that takes only a lone not-implemented answer for a stub
isGeneratedStubLoneAnswer(impl) ==
    LET f == ParseFile(impl)
        funcs == {i \in DOMAIN f.decls : f.decls[i].d = "FuncDecl"}
    IN /\ \E i \in DOMAIN impl : MentionsNotImplemented(impl[i])
       /\ f.ok
       /\ funcs # {}
       /\ LET funcDecl == f.decls[CHOOSE i \in funcs : \A j \in funcs : i <= j]
          IN /\ funcDecl.hasBody
             /\ Len(funcDecl.body) = 1
             /\ isNotImplementedResponse(funcDecl.body[1])

isGeneratedStub(impl) ==
    IF ~\E i \in DOMAIN impl : MentionsNotImplemented(impl[i]) THEN FALSE
    ELSE LET f == ParseFile(impl)
         IN IF ~f.ok THEN FALSE
            ELSE LET funcs == {i \in DOMAIN f.decls : f.decls[i].d = "FuncDecl"}
                 IN IF funcs = {} THEN FALSE
                    ELSE LET funcDecl == f.decls[CHOOSE i \in funcs : \A j \in funcs : i <= j]
                             statements == funcDecl.body
                         IN IF ~funcDecl.hasBody THEN FALSE
                            ELSE IF Len(statements) = 0 THEN FALSE
                            ELSE IF ~isNotImplementedResponse(statements[Len(statements)])
                                 THEN FALSE
                            ELSE \A i \in 1..(Len(statements) - 1) :
                                     isDecodeRelatedStatement(statements[i])

(***************************************************************************)
(* Merge reconciler.                                                       *)
(***************************************************************************)
\* The loop over the map existingMethods, taken in the order `order` (Go
\* leaves the iteration order of a map open): the preserved implementations
\* and the two name lists.
classifyExisting(existingMethods, newMethodNames, order) ==
    LET keep(name) == name \in newMethodNames /\ ~isGeneratedStub(existingMethods[name])
        gone(name) == name \notin newMethodNames
        kept == SelectSeq(order, keep)
        removed == SelectSeq(order, gone)
    IN [preservedMethods |-> [name \in Range(kept) |-> existingMethods[name]],
        PreservedMethods |-> kept,
        RemovedMethods |-> removed,
        moved |-> [i \in DOMAIN removed |->
                      [name |-> removed[i], content |-> existingMethods[removed[i]]]]]

\* the writing loop without the lookup in preservedMethods
writeMethodsGenerated(generatedOrdered, preservedMethods) ==
    Flatten([i \in DOMAIN generatedOrdered |-> <<nl>> \o generatedOrdered[i].content])

\* the writing loop taken from the last generated method to the first
writeMethodsBackwards(generatedOrdered, preservedMethods) ==
    Flatten([i \in DOMAIN generatedOrdered |->
                <<nl>> \o (IF generatedOrdered[Len(generatedOrdered) + 1 - i].name
                                  \in DOMAIN preservedMethods
                           THEN preservedMethods[generatedOrdered[Len(generatedOrdered) + 1 - i].name]
                           ELSE generatedOrdered[Len(generatedOrdered) + 1 - i].content)])

\* the methods in the generated order, a preserved implementation in place
\* of the generated one where there is one
writeMethods(generatedOrdered, preservedMethods) ==
    Flatten([i \in DOMAIN generatedOrdered |->
                <<nl>> \o (IF generatedOrdered[i].name \in DOMAIN preservedMethods
                           THEN preservedMethods[generatedOrdered[i].name]
                           ELSE generatedOrdered[i].content)])

\* the removed section with the headers and without the bodies
writeRemovedHeadersOnly(existingRemoved) ==
    <<nl, nl, removedMarker>>
    \o Flatten([i \in DOMAIN existingRemoved |->
                   <<nl, nl, TokN("cmtRemoved", existingRemoved[i].name),
                     nl, Tok("cmtPreserved")>>])

\* the removed section
writeRemoved(existingRemoved) ==
    <<nl, nl, removedMarker>>
    \o Flatten([i \in DOMAIN existingRemoved |->
                   <<nl, nl, TokN("cmtRemoved", existingRemoved[i].name),
                     nl, Tok("cmtPreserved"), nl, Tok("/*"), nl>>
                   \o existingRemoved[i].content \o <<nl, Tok("*/")>>])

\* the result, from the merged above region, the outcome of the loop, the
\* archive entries read from the prior text and the generated methods
mergeResult(mergedAbove, c, existingRemoved, generatedOrdered) ==
    [isNil |-> FALSE,
     Content |-> mergedAbove \o <<nl, marker>>
                 \o <<nl, nl, Tok("hdrImpl"), nl>>
                 \o writeMethods(generatedOrdered, c.preservedMethods)
                 \o writeRemoved(existingRemoved \o c.moved),
     PreservedMethods |-> c.PreservedMethods,
     RemovedMethods |-> c.RemovedMethods,
     err |-> "nil"]

\* MergeContent once both texts are split at the marker
mergeRegions(ex, gen, order) ==
    mergeResult(preserveHandlerStructFields(gen.above, ex.above),
                classifyExisting(extractMethods(ex.below),
                                 DOMAIN extractMethods(gen.below), order),
                extractRemovedSection(ex.below),
                extractMethodsOrdered(gen.below))

MergeContent(generated, existing, order) ==
    mergeRegions(splitAtMarker(existing), splitAtMarker(generated), order)

\* a Merge that merges with an empty text when there is no file
MergeAbsentAsEmpty(generated, fstate, fcontent, order) ==
    IF fstate = "unreadable"
    THEN [isNil |-> TRUE, Content |-> <<>>, PreservedMethods |-> <<>>,
          RemovedMethods |-> <<>>, err |-> "read"]
    ELSE MergeContent(generated, IF fstate = "absent" THEN <<>> ELSE fcontent, order)

\* a Merge that takes every read error for a missing file
MergeSkippingUnreadable(generated, fstate, fcontent, order) ==
    IF fstate # "present"
    THEN [isNil |-> FALSE, Content |-> generated, PreservedMethods |-> <<>>,
          RemovedMethods |-> <<>>, err |-> "nil"]
    ELSE MergeContent(generated, fcontent, order)

\* The file at existingPath: absent, unreadable (a read error that is not
\* "does not exist"), or present with a content.
Merge(generated, fstate, fcontent, order) ==
    IF fstate = "absent"
    THEN [isNil |-> FALSE, Content |-> generated, PreservedMethods |-> <<>>,
          RemovedMethods |-> <<>>, err |-> "nil"]
    ELSE IF fstate = "unreadable"
    THEN [isNil |-> TRUE, Content |-> <<>>, PreservedMethods |-> <<>>,
          RemovedMethods |-> <<>>, err |-> "read"]
    ELSE MergeContent(generated, fcontent, order)

\* the iteration orders the loop over existingMethods can take
MapOrders(fstate, fcontent) ==
    IF fstate = "present"
    THEN Perms(DOMAIN extractMethods(splitAtMarker(fcontent).below))
    ELSE {<<>>}

(***************************************************************************)
(* Routes emitter: the text generated for a list of calls.                 *)
(***************************************************************************)
\* What the schema gives each call: a body argument, a complex query
\* argument, or no argument.
ArgKind(name) ==
    CASE name = "CreateA" -> "body"
      [] name = "ListC" -> "query"
      [] OTHER -> "none"

DecodeError == <<Tok("ifDecode"), Tok("{"), Tok("writeBad"), Tok("return"), Tok("}")>>

StubTail == <<nl, TokN("cmt", "TODO: implement"), Tok("writeNotImpl"), Tok("}")>>

\* one generated handler, from its signature to its closing brace
routeStub(name) ==
    <<TokN("sig", name), Tok("{")>>
    \o (CASE ArgKind(name) = "body" -> <<Tok("declTarget")>> \o DecodeError
          [] ArgKind(name) = "query" ->
               <<TokN("cmt", "Query parameters:"), Tok("declTarget"),
                 Tok("newDecoder"), Tok("ignoreUnknown")>> \o DecodeError
          [] OTHER -> <<>>)
    \o StubTail

DefaultStruct == <<Tok("typeHandlerStruct"), Tok("{"), nl, Tok("cmtDeps"), nl, Tok("}")>>

DefaultApplyMiddleware ==
    <<TokN("sig", "applyMiddleware"), Tok("{"), Tok("cmtExample"), Tok("}")>>

DefaultRouteMiddleware ==
    <<TokN("sig", "RouteMiddleware"), Tok("{"), Tok("retMap"), Tok("{"),
      Tok("cmtPost"), Tok("}"), Tok("}")>>

routesAbove(calls) ==
    <<Tok("pre")>> \o DefaultStruct \o <<Tok("ctor")>>
    \o <<TokN("sig", "BasePath"), Tok("{"), Tok("retBase"), Tok("}")>>
    \o <<TokN("sig", "Routes"), Tok("{"), Tok("newRouter")>>
    \o [i \in DOMAIN calls |-> TokN("route", calls[i])]
    \o <<Tok("retRouter"), Tok("}")>>
    \o DefaultApplyMiddleware \o DefaultRouteMiddleware \o <<nl, nl>>

routesBelow(calls) ==
    <<nl, nl, Tok("hdrImpl"), nl>>
    \o Flatten([i \in DOMAIN calls |-> <<nl, nl>> \o routeStub(calls[i])])
    \o <<nl, nl, removedMarker, nl>>

Emit(calls) == routesAbove(calls) \o <<marker>> \o routesBelow(calls)

(***************************************************************************)
(* The state: the routes file of one schema, the record of the last        *)
(* `restgen generate` run on it, and one classification of a method text.  *)
(***************************************************************************)
VARIABLES
    fileState,    \* "absent", "present" or "unreadable"
    fileContent,  \* the text of the routes file
    lastRun,      \* the run that wrote the file as it is, if one did
    stubImpl,     \* a method text handed to the classifier
    stubForm,     \* how that text was made
    stubResult,   \* the classifier's answer and the merge of a file holding the text
    stubPc,       \* "idle", "editing", "classified"
    sdlLines,     \* the call and field lines of a schema file being written
    sdlResult,    \* what Parse returned for the file
    sdlPc,        \* "editing" or "compiled"
    incFiles,     \* the schema files on disk: existence, include directives, soundness
    incParser,    \* the Parser: baseDir and cache, with the record of what it did
    incCalls,     \* the ParseFile calls made on the Parser and what they returned
    incPc,        \* "editing" or "parsing"
    runOut,       \* the routes file of each schema file of a run: state and text
    runDeps,      \* dependencies.go exists
    runLog,       \* what the last `restgen generate` over all schema files did
    blkText,      \* the lines of a text handed to extractBlocks
    blkOut,       \* the blocks extractBlocks returned for it
    blkPc,        \* "editing" or "extracted"
    hnName,       \* the bytes of the name of a call
    hnOut,        \* the bytes HandlerName returned for it
    hnPc,         \* "editing" or "named"
    cyFiles,      \* the schema files of one directory: state and include directives
    cyStack,      \* the ParseFile calls in progress: file and number of includes done
    cyCache,      \* the cache of the Parser: the files compiled
    cyCall,       \* the ParseFile call made from outside: file and cache at its start
    cyOut,        \* what that call returned: "none", "schema" or "error"
    cyPc          \* "editing", "running" or "returned"

vars ==
    <<fileState, fileContent, lastRun, stubImpl, stubForm, stubResult, stubPc,
      sdlLines, sdlResult, sdlPc, incFiles, incParser, incCalls, incPc,
      runOut, runDeps, runLog,
      blkText, blkOut, blkPc,
      hnName, hnOut, hnPc,
      cyFiles, cyStack, cyCache, cyCall, cyOut, cyPc>>

fileVars == <<fileState, fileContent, lastRun>>

stubVars == <<stubImpl, stubForm, stubResult, stubPc>>

parseVars == <<sdlLines, sdlResult, sdlPc>>

includeVars == <<incFiles, incParser, incCalls, incPc>>

runVars == <<runOut, runDeps, runLog>>

cycleVars == <<cyFiles, cyStack, cyCache, cyCall, cyOut, cyPc>>

nameVars == <<hnName, hnOut, hnPc>>

blockVars == <<blkText, blkOut, blkPc>>

\* what the actions on the routes file leave alone
notFileVars == <<stubVars, parseVars, includeVars, runVars, blockVars, nameVars, cycleVars>>

\* what the actions on a method text leave alone
notStubVars == <<fileVars, parseVars, includeVars, runVars, blockVars, nameVars, cycleVars>>

\* what the actions on the text of one schema file leave alone
notParseVars == <<fileVars, stubVars, includeVars, runVars, blockVars, nameVars, cycleVars>>

\* what the actions on schema files with includes leave alone
notIncludeVars == <<fileVars, stubVars, parseVars, runVars, blockVars, nameVars, cycleVars>>

\* what a run over several schema files leaves alone
notRunVars == <<fileVars, stubVars, parseVars, includeVars, blockVars, nameVars, cycleVars>>

\* what the extraction of the blocks of a text leaves alone
notBlockVars == <<fileVars, stubVars, parseVars, includeVars, runVars, nameVars, cycleVars>>

\* what the naming of the handler of a call leaves alone
notNameVars == <<fileVars, stubVars, parseVars, includeVars, runVars, blockVars, cycleVars>>

\* what a ParseFile call that is followed step by step leaves alone
notCycleVars == <<fileVars, stubVars, parseVars, includeVars, runVars, nameVars, blockVars>>

\* the outcome of a compilation: a schema or an error, never both
NoSchema == [FileName |-> <<>>, Base |-> "", Models |-> "", Includes |-> <<>>,
             Calls |-> <<>>, Types |-> <<>>, Inputs |-> <<>>]

NoError == [kind |-> "nil", call |-> "", what |-> ""]

NoCompile == [isNil |-> TRUE, schema |-> NoSchema, err |-> NoError]

(***************************************************************************)
(* A path is a sequence of segments and a segment a sequence of pieces,    *)
(* so that "common-types.sdl" is <<"common", "-", "types", ".sdl">>.       *)
(***************************************************************************)
Root == <<"/">>

\* the working directory of the process
Cwd == <<Root, <<"w">>>>

SchemaDir == Cwd \o <<<<"a">>>>

MainSdl == SchemaDir \o <<<<"main", ".sdl">>>>

GeoSdl == SchemaDir \o <<<<"sub">>, <<"geo", ".sdl">>>>

CommonSdl == SchemaDir \o <<<<"common", "-", "types", ".sdl">>>>

SubCommonSdl == SchemaDir \o <<<<"sub">>, <<"common", "-", "types", ".sdl">>>>

SdlFiles == {MainSdl, GeoSdl, CommonSdl, SubCommonSdl}

\* the schema files the patterns of the configuration match, in the order of
\* filepath.Glob
SchemaFiles == <<"contacts", "orders", "users">>

NoRoutesFile == [state |-> "absent", content |-> <<>>]

NoGenerate ==
    [ran |-> FALSE, err |-> "nil", errFile |-> "", written |-> <<>>,
     prior |-> [f \in Range(SchemaFiles) |-> "absent"]]

\* New(): no base directory, an empty cache; nothing read, resolved or parsed
NewParser ==
    [baseDir |-> <<>>, cache |-> <<>>, reads |-> <<>>, resolved |-> <<>>, parsed |-> <<>>,
     answers |-> <<>>]

NoResult ==
    [isNil |-> TRUE, Content |-> <<>>, PreservedMethods |-> <<>>, RemovedMethods |-> <<>>,
     err |-> "nil"]

NoRun ==
    [ran |-> FALSE, calls |-> <<>>, priorState |-> "absent",
     existing |-> <<>>, order |-> <<>>, result |-> NoResult]

NoForm == [kind |-> "none", stmts |-> <<>>]

NoClass == [stub |-> FALSE, merged |-> NoResult]

\* The calls of the schema, and the call lists a schema can hold.
CallNames == {"CreateA", "GetB"}

Schemas ==
    {<<>>} \cup {<<a>> : a \in CallNames}
    \cup {<<a, b>> : <<a, b>> \in {p \in CallNames \X CallNames : p[1] # p[2]}}

\* What a developer writes between the braces of a handler.
\* the README's implementation: decode, call the service, answer
ReadmeBody ==
    <<Tok("declTarget")>> \o DecodeError
    \o <<Tok("assignUser"), Tok("ifUser"), Tok("{"), Tok("writeBad"),
         Tok("return"), Tok("}"), Tok("writeOK")>>

UserBodies ==
    { ReadmeBody,
      \* a log line in front of the placeholder answer
      <<Tok("callUser"), Tok("writeNotImpl")>>,
      \* a query in a var declaration in front of the placeholder answer
      <<Tok("declUser"), Tok("writeNotImpl")>>,
      \* work in progress that does not parse
      <<Tok("garbage"), Tok("writeNotImpl")>> }

\* What a developer writes between the braces of the handler struct.
UserStructs ==
    { <<nl, TokN("field", "db"), nl>>,
      <<nl, Tok("cmtDeps"), nl, TokN("field", "db"), nl>>,
      <<nl, TokN("field", "opts"), Tok("{"), TokN("field", "db"), Tok("}"), nl>>,
      <<nl, Tok("cmtDepsNote"), nl>>,
      <<>> }

\* What a developer writes between the braces of an override function.
UserMiddleware(fn) ==
    IF fn = "applyMiddleware"
    THEN <<TokN("use", "logger")>>
    ELSE <<Tok("retMap"), Tok("{"), TokN("mwEntry", "cache"), Tok("}")>>

\* the files of the directory of a ParseFile call followed step by step
CycleFiles == {"a", "b", "c"}

NoCall == [root |-> "", cache |-> {}]

Init ==
    /\ fileState = "absent"
    /\ fileContent = <<>>
    /\ lastRun = NoRun
    /\ stubImpl = <<>>
    /\ stubForm = NoForm
    /\ stubResult = NoClass
    /\ stubPc = "idle"
    /\ sdlLines = <<>>
    /\ sdlResult = NoCompile
    /\ sdlPc = "editing"
    /\ incFiles = [f \in SdlFiles |->
                      [exists |-> f # SubCommonSdl, includes |-> <<>>, sound |-> TRUE]]
    /\ incParser = NewParser
    /\ incCalls = <<>>
    /\ incPc = "editing"
    /\ runOut = [f \in Range(SchemaFiles) |-> NoRoutesFile]
    /\ runDeps = FALSE
    /\ runLog = NoGenerate
    /\ blkText = <<>>
    /\ blkOut = <<>>
    /\ blkPc = "editing"
    /\ hnName = <<>>
    /\ hnOut = <<>>
    /\ hnPc = "editing"
    /\ cyFiles = [f \in CycleFiles |-> [state |-> "ok", includes |-> <<>>]]
    /\ cyStack = <<>>
    /\ cyCache = {}
    /\ cyCall = NoCall
    /\ cyOut = "none"
    /\ cyPc = "editing"

\* the end of the run of one schema file: the merge error is returned, or
\* the merged text is written
writeResult(calls, order, result) ==
    /\ lastRun' = [ran |-> TRUE, calls |-> calls, priorState |-> fileState,
                   existing |-> IF fileState = "present" THEN fileContent ELSE <<>>,
                   order |-> order, result |-> result]
    /\ IF result.err # "nil"
       THEN UNCHANGED <<fileState, fileContent>>
       ELSE /\ fileState' = "present"
            /\ fileContent' = result.Content

\* One schema file of `restgen generate`: emit, merge with the file at the
\* output path, write the merged text.  A merge error ends the run before
\* the write.
runGenerate(calls) ==
    /\ \E order \in MapOrders(fileState, fileContent) :
          writeResult(calls, order, Merge(Emit(calls), fileState, fileContent, order))
    /\ UNCHANGED notFileVars

\* content with the text between the brace at braceIdx and the brace that
\* closes it replaced by body
ReplaceBlock(content, braceIdx, body) ==
    SubSeq(content, 1, braceIdx) \o body
    \o SubSeq(content, matchBrace(content, braceIdx + 1, 1, Len(content) + 1), Len(content))

\* the position of the signature of function name between positions lo and
\* hi, 0 when it is not there
SigBetween(content, name, lo, hi) ==
    LET i == IndexFrom(content, lo, TokN("sig", name))
    IN IF i # 0 /\ i < hi THEN i ELSE 0

MarkerIdx(content) == Index(content, marker)

LiveEnd(content) ==
    IF Index(content, removedMarker) = 0 THEN Len(content) + 1
    ELSE Index(content, removedMarker)

\* The developer implements (or rewrites) a handler below the marker.
editHandler(name, body) ==
    /\ fileState = "present"
    /\ MarkerIdx(fileContent) # 0
    /\ LET i == SigBetween(fileContent, name, MarkerIdx(fileContent), LiveEnd(fileContent))
       IN /\ i # 0
          /\ fileContent' = ReplaceBlock(fileContent, i + 1, body)
    /\ fileContent' # fileContent
    /\ lastRun' = NoRun
    /\ UNCHANGED <<fileState, notFileVars>>

\* The developer adds dependencies to the handler struct.
editStruct(interior) ==
    /\ fileState = "present"
    /\ LET m == structStart(fileContent, 1)
       IN /\ m.start # 0
          /\ fileContent' = ReplaceBlock(fileContent, m.brace, interior)
    /\ fileContent' # fileContent
    /\ lastRun' = NoRun
    /\ UNCHANGED <<fileState, notFileVars>>

\* The developer customizes applyMiddleware or RouteMiddleware.
editMiddleware(fn) ==
    /\ fileState = "present"
    /\ LET hi == IF MarkerIdx(fileContent) = 0 THEN Len(fileContent) + 1
                 ELSE MarkerIdx(fileContent)
           i == SigBetween(fileContent, fn, 1, hi)
       IN /\ i # 0
          /\ fileContent' = ReplaceBlock(fileContent, i + 1, UserMiddleware(fn))
    /\ fileContent' # fileContent
    /\ lastRun' = NoRun
    /\ UNCHANGED <<fileState, notFileVars>>

\* The developer moves the handler struct out of the routes file.
dropStruct ==
    /\ fileState = "present"
    /\ LET m == structStart(fileContent, 1)
           structDef == extractHandlerStruct(fileContent)
       IN /\ m.start # 0
          /\ fileContent' = SubSeq(fileContent, 1, m.start - 1)
                             \o SubSeq(fileContent, m.start + Len(structDef), Len(fileContent))
    /\ lastRun' = NoRun
    /\ UNCHANGED <<fileState, notFileVars>>

\* The routes file is deleted.
removeFile ==
    /\ fileState # "absent"
    /\ fileState' = "absent"
    /\ fileContent' = <<>>
    /\ lastRun' = NoRun
    /\ UNCHANGED notFileVars

\* The routes file loses or regains its read permission.
chmodFile ==
    /\ fileState # "absent"
    /\ fileState' = IF fileState = "present" THEN "unreadable" ELSE "present"
    /\ lastRun' = NoRun
    /\ UNCHANGED <<fileContent, notFileVars>>

\* The developer works below the marker; the file comes and goes.
Next ==
    \/ \E calls \in Schemas : runGenerate(calls)
    \/ \E name \in CallNames : \E body \in UserBodies : editHandler(name, body)
    \/ removeFile
    \/ chmodFile

Spec == Init /\ [][Next]_vars

\* The developer works above the marker as well.
NextAbove ==
    \/ \E calls \in Schemas : runGenerate(calls)
    \/ editHandler("GetB", ReadmeBody)
    \/ \E interior \in UserStructs : editStruct(interior)
    \/ dropStruct
    \/ \E fn \in {"applyMiddleware", "RouteMiddleware"} : editMiddleware(fn)

SpecAbove == Init /\ [][NextAbove]_vars

(***************************************************************************)
(* One method text at a time, written statement by statement and handed to *)
(* the classifier, alone and inside a routes file that is merged.          *)
(***************************************************************************)
MaxStmts == 3

\* the lines a developer can put in a handler body
StmtKinds ==
    SimpleKinds \cup
    {"ifDecodeReturn", "ifDecodeNoReturn", "ifWrappedReturn", "ifUserReturn",
     "ifUserInitReturn", "cmtNotImpl", "garbage"}

\* the text of one line
RenderStmt(kind) ==
    CASE kind = "ifDecodeReturn" -> DecodeError
      [] kind = "ifDecodeNoReturn" -> <<Tok("ifDecode"), Tok("{"), Tok("writeBad"), Tok("}")>>
      [] kind = "ifWrappedReturn" ->
           <<Tok("ifDecodeWrapped"), Tok("{"), Tok("writeBad"), Tok("return"), Tok("}")>>
      [] kind = "ifUserReturn" ->
           <<Tok("ifUser"), Tok("{"), Tok("writeBad"), Tok("return"), Tok("}")>>
      [] kind = "ifUserInitReturn" ->
           <<Tok("ifUserInit"), Tok("{"), Tok("writeBad"), Tok("return"), Tok("}")>>
      [] OTHER -> <<Tok(kind)>>

\* the text of a form: a method with a body, a method declared without a
\* body, or a text that declares no function
Render(form) ==
    CASE form.kind = "method" ->
           <<TokN("sig", "GetB"), Tok("{")>>
           \o Flatten([i \in DOMAIN form.stmts |-> RenderStmt(form.stmts[i])])
           \o <<Tok("}")>>
      [] form.kind = "noBody" -> <<Tok("cmtNotImpl"), TokN("sig", "GetB")>>
      [] form.kind = "noFunc" -> <<Tok("cmtNotImpl"), Tok("declUser")>>
      [] OTHER -> <<>>

\* the routes file of schema <<"GetB">> with impl as the text of its handler
FileWith(impl) ==
    routesAbove(<<"GetB">>) \o <<nl, marker, nl, nl, Tok("hdrImpl"), nl, nl>>
    \o impl \o <<nl, nl, removedMarker>>

\* The developer starts a text.
startText(kind) ==
    /\ stubPc = "idle"
    /\ stubForm' = [kind |-> kind, stmts |-> <<>>]
    /\ stubImpl' = Render(stubForm')
    /\ stubPc' = "editing"
    /\ UNCHANGED <<stubResult, notStubVars>>

\* The developer adds a line to the body.
appendStmt(kind) ==
    /\ stubPc = "editing"
    /\ stubForm.kind = "method"
    /\ Len(stubForm.stmts) < MaxStmts
    /\ stubForm' = [stubForm EXCEPT !.stmts = Append(@, kind)]
    /\ stubImpl' = Render(stubForm')
    /\ UNCHANGED <<stubResult, stubPc, notStubVars>>

\* The text is classified, and a routes file holding it is merged with the
\* text generated for the same schema.
classify ==
    /\ stubPc = "editing"
    /\ stubResult' =
           [stub |-> isGeneratedStub(stubImpl),
            merged |-> IF stubForm.kind = "method"
                       THEN MergeContent(Emit(<<"GetB">>), FileWith(stubImpl), <<"GetB">>)
                       ELSE NoResult]
    /\ stubPc' = "classified"
    /\ UNCHANGED <<stubImpl, stubForm, notStubVars>>

\* The developer puts the text away.
discard ==
    /\ stubPc = "classified"
    /\ stubImpl' = <<>>
    /\ stubForm' = NoForm
    /\ stubResult' = NoClass
    /\ stubPc' = "idle"
    /\ UNCHANGED notStubVars

NextStub ==
    \/ \E kind \in {"method", "noBody", "noFunc"} : startText(kind)
    \/ \E kind \in StmtKinds : appendStmt(kind)
    \/ classify
    \/ discard

SpecStub == Init /\ [][NextStub]_vars

(***************************************************************************)
(* Properties of a run that merged with a prior routes file.               *)
(***************************************************************************)
\* the live handler section of a routes text
LiveSection(content) == SubSeq(content, MarkerIdx(content) + 1, LiveEnd(content) - 1)

\* what follows the removed-handlers marker
ArchiveSection(content) ==
    IF Index(content, removedMarker) = 0 THEN <<>>
    ELSE SubSeq(content, Index(content, removedMarker) + 1, Len(content))

\* an archive entry as it is written: header, note, the body in a comment
ArchiveEntry(name, body) ==
    <<TokN("cmtRemoved", name), nl, Tok("cmtPreserved"), nl, Tok("/*"), nl>>
    \o body \o <<nl, Tok("*/")>>

\* the names the archive of a routes text has a header for
ArchivedNames(content) ==
    LET a == ArchiveSection(content)
    IN {a[i].n : i \in {j \in DOMAIN a : a[j].t = "cmtRemoved"}}

\* the body under the first header for name in the archive of a routes text
ArchiveBody(content, name) ==
    LET a == ArchiveSection(content)
        h == Index(a, TokN("cmtRemoved", name))
        close == IndexFrom(a, h, Tok("*/"))
    IN SubSeq(a, h + 6, close - 2)

\* the last run read a routes file and merged with it
Merged == lastRun.ran /\ lastRun.priorState = "present"

\* the methods of the prior output, by name
PriorMethods == extractMethods(splitAtMarker(lastRun.existing).below)

\* C1 - Preservation invariant: for every method name that is both in the
\* prior output's below-marker region and in the generated text, a prior body
\* that is not classified as a generated stub is in the live handler section
\* of the merged content exactly as it was, and the generated placeholder of
\* that name is not in the merged content.
C1_PreservationInvariant ==
    Merged =>
        \A name \in DOMAIN PriorMethods \cap Range(lastRun.calls) :
            ~isGeneratedStub(PriorMethods[name]) =>
                /\ IsInfix(PriorMethods[name], LiveSection(lastRun.result.Content))
                /\ ~IsInfix(routeStub(name), lastRun.result.Content)

\* a merge of two prior handlers that kept a hand-written body, one holding
\* the placeholder answer behind a log line, and regenerated the other
C1_Witness ==
    /\ Merged
    /\ Len(lastRun.calls) = 2
    /\ \E name \in DOMAIN PriorMethods \cap Range(lastRun.calls) :
          /\ Tok("callUser") \in Range(PriorMethods[name])
          /\ ~isGeneratedStub(PriorMethods[name])
          /\ IsInfix(PriorMethods[name], LiveSection(fileContent))
    /\ \E name \in DOMAIN PriorMethods \cap Range(lastRun.calls) :
          /\ isGeneratedStub(PriorMethods[name])
          /\ IsInfix(routeStub(name), LiveSection(fileContent))

\* C2 - Removal archival: every method of the prior output with a
\* non-default body that the generated text no longer has is, body verbatim,
\* in the removed-handlers archive of the merged content under the header
\* naming it; its name is in RemovedMethods and not in PreservedMethods.
C2_RemovalArchival ==
    Merged =>
        \A name \in DOMAIN PriorMethods \ Range(lastRun.calls) :
            PriorMethods[name] # routeStub(name) =>
                /\ IsInfix(ArchiveEntry(name, PriorMethods[name]),
                           ArchiveSection(lastRun.result.Content))
                /\ name \in Range(lastRun.result.RemovedMethods)
                /\ name \notin Range(lastRun.result.PreservedMethods)

\* a merge that moved a live, hand-written handler to the archive
C2_Witness ==
    /\ Merged
    /\ \E name \in DOMAIN PriorMethods \ Range(lastRun.calls) :
          /\ SigBetween(lastRun.existing, name, MarkerIdx(lastRun.existing),
                        LiveEnd(lastRun.existing)) # 0
          /\ PriorMethods[name] # routeStub(name)
          /\ IsInfix(ArchiveEntry(name, PriorMethods[name]), ArchiveSection(fileContent))
          /\ ~IsInfix(PriorMethods[name], LiveSection(fileContent))

\* C3 - Idempotent merge: merging a generated text against the output of
\* merging it with no prior output changes nothing: the methods of the output
\* are the generated ones in the generated order, PreservedMethods and
\* RemovedMethods are empty, the archive has no entries, and one more merge
\* of the same generated text yields the same text.
C3_IdempotentMerge ==
    (Merged /\ lastRun.existing = Emit(lastRun.calls)) =>
        /\ lastRun.result.PreservedMethods = <<>>
        /\ lastRun.result.RemovedMethods = <<>>
        /\ LiveSection(lastRun.result.Content) =
               <<nl, nl, Tok("hdrImpl"), nl>>
               \o Flatten([i \in DOMAIN lastRun.calls |-> <<nl>> \o routeStub(lastRun.calls[i])])
               \o <<nl, nl>>
        /\ ArchiveSection(lastRun.result.Content) = <<>>
        /\ \A order \in MapOrders("present", lastRun.result.Content) :
              MergeContent(Emit(lastRun.calls), lastRun.result.Content, order).Content
                  = lastRun.result.Content

\* a second run on a two-call schema whose file nobody touched
C3_Witness ==
    /\ Merged
    /\ lastRun.existing = Emit(lastRun.calls)
    /\ Len(lastRun.calls) = 2
    /\ fileContent = lastRun.result.Content

\* C4 - Archive carry-forward: every entry of the prior output's archive
\* whose name the generated text still lacks is in the merged archive exactly
\* once, under the same name with the same body, whatever the number of
\* regenerations before.
C4_ArchiveCarryForward ==
    Merged =>
        \A name \in ArchivedNames(lastRun.existing) \ Range(lastRun.calls) :
            /\ Occurrences(ArchiveEntry(name, ArchiveBody(lastRun.existing, name)),
                           ArchiveSection(lastRun.result.Content)) = 1
            /\ Occurrences(<<TokN("cmtRemoved", name)>>,
                           ArchiveSection(lastRun.result.Content)) = 1

\* a regeneration that found two entries in the archive, one hand-written,
\* and kept both
C4_Witness ==
    /\ Merged
    /\ Cardinality(ArchivedNames(lastRun.existing)) = 2
    /\ lastRun.calls = <<>>
    /\ \E name \in ArchivedNames(lastRun.existing) :
          /\ ArchiveBody(lastRun.existing, name) # routeStub(name)
          /\ Occurrences(ArchiveEntry(name, ArchiveBody(lastRun.existing, name)),
                         ArchiveSection(fileContent)) = 1
    /\ Cardinality(ArchivedNames(fileContent)) = 2

(***************************************************************************)
(* Properties of the above-marker region of a merge.                       *)
(***************************************************************************)
\* the above-marker region of the merged content, as preserveHandlerStructFields
\* returned it
MergedAbove ==
    SubSeq(lastRun.result.Content, 1, MarkerIdx(lastRun.result.Content) - 2)

\* the handler struct of the prior output's above-marker region
PriorStruct == extractHandlerStruct(splitAtMarker(lastRun.existing).above)

\* a struct whose interior is empty or only the default comment
IsPlaceholderStruct(structDef) ==
    LET open == Index(structDef, Tok("{"))
        close == LastIndex(structDef, Tok("}"))
    IN TrimSpace(SubSeq(structDef, open + 1, close - 1)) \in {<<>>, <<Tok("cmtDeps")>>}

\* function fn of the prior output's above-marker region, from its signature
\* to its closing brace
PriorFunction(fn) ==
    LET above == splitAtMarker(lastRun.existing).above
        i == Index(above, TokN("sig", fn))
    IN IF i = 0 THEN <<>>
       ELSE SubSeq(above, i, matchBrace(above, i + 2, 1, i + 1))

DefaultFunction(fn) ==
    IF fn = "applyMiddleware" THEN DefaultApplyMiddleware ELSE DefaultRouteMiddleware

\* C5 - Override-function preservation: applyMiddleware and RouteMiddleware
\* of the prior output are in the merged above-marker region unchanged when
\* they differ from their default template, and the generated default is
\* there when they equal it.
C5_OverridePreservation ==
    Merged =>
        \A fn \in {"applyMiddleware", "RouteMiddleware"} :
            PriorFunction(fn) # <<>> =>
                IF PriorFunction(fn) # DefaultFunction(fn)
                THEN IsInfix(PriorFunction(fn), MergedAbove)
                ELSE IsInfix(DefaultFunction(fn), MergedAbove)

\* C6 - Handler-struct preservation: a prior handler struct whose interior
\* is not the default placeholder (empty, or only the default comment) takes
\* the place of the generated struct unchanged, also when fields stand under
\* the default comment; with a placeholder or no prior struct the generated
\* above region is used unchanged.
C6_StructPreservation ==
    Merged =>
        IF PriorStruct # <<>> /\ ~IsPlaceholderStruct(PriorStruct)
        THEN /\ extractHandlerStruct(MergedAbove) = PriorStruct
             /\ Occurrences(<<Tok("typeHandlerStruct")>>, MergedAbove) = 1
             /\ ~IsInfix(DefaultStruct, MergedAbove)
        ELSE MergedAbove = routesAbove(lastRun.calls)

\* a merge that kept a struct with a field under the default comment
C6_Witness ==
    /\ Merged
    /\ PriorStruct = <<Tok("typeHandlerStruct"), Tok("{"), nl, Tok("cmtDeps"), nl,
                       TokN("field", "db"), nl, Tok("}")>>
    /\ IsInfix(PriorStruct, splitAtMarker(fileContent).above)

(***************************************************************************)
(* Properties of Merge on the three states of the file.                    *)
(***************************************************************************)
\* C9 - No-prior-output pass-through: with no file at the output path Merge
\* returns the generated text as Content, token for token, with empty
\* PreservedMethods and RemovedMethods and no error.
C9_PassThrough ==
    (lastRun.ran /\ lastRun.priorState = "absent") =>
        lastRun.result = [isNil |-> FALSE, Content |-> Emit(lastRun.calls),
                          PreservedMethods |-> <<>>, RemovedMethods |-> <<>>,
                          err |-> "nil"]

\* a first run on a two-call schema
C9_Witness ==
    /\ lastRun.ran
    /\ lastRun.priorState = "absent"
    /\ Len(lastRun.calls) = 2
    /\ fileState = "present"
    /\ fileContent = Emit(lastRun.calls)

\* C10 - Merge fails exactly when the file cannot be read for a reason other
\* than its absence, and then returns the read error and no result; on every
\* prior text that was read the result is non-nil and the error nil.
C10_MergeFailure ==
    lastRun.ran =>
        /\ (lastRun.result.err # "nil") <=> (lastRun.priorState = "unreadable")
        /\ lastRun.priorState = "unreadable" =>
               (lastRun.result.isNil /\ lastRun.result.err = "read")
        /\ lastRun.priorState # "unreadable" =>
               (~lastRun.result.isNil /\ lastRun.result.err = "nil")

\* a run that met an unreadable file and left it as it was
C10_Witness ==
    /\ lastRun.ran
    /\ lastRun.priorState = "unreadable"
    /\ lastRun.result.isNil
    /\ lastRun.result.err = "read"
    /\ fileState = "unreadable"
    /\ fileContent # <<>>

(***************************************************************************)
(* Properties of the classifier.                                           *)
(***************************************************************************)
\* the statements of a body: its lines without the comments
StmtsOf(form) == SelectSeq(form.stmts, LAMBDA k : k # "cmtNotImpl")

\* the shape of a stub: decode-related statements, then one not-implemented
\* answer
IsDecodeRelatedKind(kind) ==
    kind \in {"declTarget", "newDecoder", "ignoreUnknown", "ifDecodeReturn", "ifWrappedReturn"}

IsNotImplementedAnswerKind(kind) == kind \in {"writeNotImpl", "writeLocalNI"}

HasStubShape(form) ==
    LET S == StmtsOf(form)
    IN /\ form.kind = "method"
       /\ Len(S) >= 1
       /\ IsNotImplementedAnswerKind(S[Len(S)])
       /\ \A i \in 1..(Len(S) - 1) : IsDecodeRelatedKind(S[i])

\* C7 - Stub shape: isGeneratedStub is true exactly for a body of zero or
\* more decode-related statements (a decode-target declaration, an assignment
\* constructing a decoder, a decoder-option call, a conditional on a decode
\* call ending in return) followed by one not-implemented answer; a body with
\* a leading statement of other user logic is not a stub.
C7_StubShape ==
    stubPc = "classified" => (stubResult.stub <=> HasStubShape(stubForm))

\* C8 - Conservative classification: isGeneratedStub is false for a text
\* without the not-implemented marker, a text that does not parse, a body
\* without statements and a text without a function declaration or body; a
\* merge of a file holding such a method keeps it and returns no error, and
\* no classified text makes the merge fail.
C8_Conservative ==
    stubPc = "classified" =>
        /\ stubResult.stub \in BOOLEAN
        /\ stubForm.kind = "method" =>
               (~stubResult.merged.isNil /\ stubResult.merged.err = "nil")
        /\ (\/ ~\E i \in DOMAIN stubForm.stmts :
                   stubForm.stmts[i] \in {"writeNotImpl", "writeLocalNI", "failNI", "cmtNotImpl"}
            \/ "garbage" \in Range(stubForm.stmts)
            \/ StmtsOf(stubForm) = <<>>
            \/ stubForm.kind \in {"noFunc", "noBody"})
           => /\ ~stubResult.stub
              /\ stubForm.kind = "method" =>
                     /\ stubResult.merged.PreservedMethods = <<"GetB">>
                     /\ IsInfix(stubImpl, LiveSection(stubResult.merged.Content))

\* a body that holds the marker and does not parse went through the
\* classifier and the merge
C8_Witness ==
    /\ stubPc = "classified"
    /\ stubForm = [kind |-> "method", stmts |-> <<"garbage", "writeNotImpl">>]
    /\ ~stubResult.stub
    /\ stubResult.merged.err = "nil"
    /\ IsInfix(stubImpl, LiveSection(stubResult.merged.Content))

(***************************************************************************)
(* Schema compiler.  The text of a call or of a field is a sequence of     *)
(* characters; an identifier ("id", "Contact", "geo.Location") is one      *)
(* character of that sequence, and so are "[", "]", "!", ":", ",", "{",    *)
(* "}", "/", "#" and the space "sp".                                       *)
(***************************************************************************)
RECURSIVE Join(_)
\* the string the characters spell
Join(chars) == IF chars = <<>> THEN "" ELSE Head(chars) \o Join(Tail(chars))

HasSuffix(s, c) == s # <<>> /\ s[Len(s)] = c

HasPrefix(s, c) == s # <<>> /\ s[1] = c

TrimSuffix(s, c) == IF HasSuffix(s, c) THEN SubSeq(s, 1, Len(s) - 1) ELSE s

RECURSIVE TrimSpacesLeft(_)
TrimSpacesLeft(s) == IF HasPrefix(s, "sp") THEN TrimSpacesLeft(Tail(s)) ELSE s

RECURSIVE TrimSpacesRight(_)
TrimSpacesRight(s) ==
    IF HasSuffix(s, "sp") THEN TrimSpacesRight(SubSeq(s, 1, Len(s) - 1)) ELSE s

\* strings.TrimSpace on characters
TrimSpaces(s) == TrimSpacesRight(TrimSpacesLeft(s))

\* the element of a list type, between its brackets
Unbracket(isList, typeStr) ==
    IF isList THEN SubSeq(typeStr, 2, Len(typeStr) - 1) ELSE typeStr

IsListType(typeStr) == HasPrefix(typeStr, "[") /\ HasSuffix(typeStr, "]")

\* the type of an argument: outer "!", brackets, inner "!"
parseArgType(name, typeStr) ==
    [Name |-> name,
     Type |-> Join(TrimSuffix(Unbracket(IsListType(TrimSuffix(typeStr, "!")),
                                        TrimSuffix(typeStr, "!")), "!")),
     Required |-> HasSuffix(typeStr, "!"),
     IsList |-> IsListType(TrimSuffix(typeStr, "!"))]

\* the type of a field, by the same steps
parseFieldType(name, typeStr) ==
    [Name |-> name,
     Type |-> Join(TrimSuffix(Unbracket(IsListType(TrimSuffix(typeStr, "!")),
                                        TrimSuffix(typeStr, "!")), "!")),
     Required |-> HasSuffix(typeStr, "!"),
     IsList |-> IsListType(TrimSuffix(typeStr, "!"))]

\* the return type with the list test made before the outer "!" is taken off
parseReturnTypeListFirst(returnTypeRaw) ==
    [ReturnType |-> Join(TrimSuffix(TrimSuffix(Unbracket(IsListType(returnTypeRaw),
                                                         returnTypeRaw), "!"), "!")),
     ReturnRequired |-> HasSuffix(returnTypeRaw, "!"),
     ReturnIsList |-> IsListType(returnTypeRaw)]

\* the return type of a call, by the same steps
parseReturnType(returnTypeRaw) ==
    [ReturnType |-> Join(TrimSuffix(Unbracket(IsListType(TrimSuffix(returnTypeRaw, "!")),
                                              TrimSuffix(returnTypeRaw, "!")), "!")),
     ReturnRequired |-> HasSuffix(returnTypeRaw, "!"),
     ReturnIsList |-> IsListType(TrimSuffix(returnTypeRaw, "!"))]

RECURSIVE splitArgsFrom(_, _, _, _)
\* the loop of splitArgs from character i on, inside `depth` brackets, with
\* `current` collected so far
splitArgsFrom(s, i, depth, current) ==
    IF i > Len(s) THEN (IF current # <<>> THEN <<current>> ELSE <<>>)
    ELSE IF s[i] = "[" THEN splitArgsFrom(s, i + 1, depth + 1, Append(current, s[i]))
    ELSE IF s[i] = "]" THEN splitArgsFrom(s, i + 1, depth - 1, Append(current, s[i]))
    ELSE IF s[i] = "," /\ depth = 0
         THEN <<current>> \o splitArgsFrom(s, i + 1, depth, <<>>)
    ELSE splitArgsFrom(s, i + 1, depth, Append(current, s[i]))

splitArgs(s) == splitArgsFrom(s, 1, 0, <<>>)

\* a part without colon skipped like an empty one
parseArgPartLenient(part, rest) ==
    IF part = <<>> \/ Index(part, ":") = 0 \/ ~rest.ok THEN rest
    ELSE [rest EXCEPT !.args =
              <<parseArgType(Join(TrimSpaces(SubSeq(part, 1, Index(part, ":") - 1))),
                             TrimSpaces(SubSeq(part, Index(part, ":") + 1, Len(part))))>>
              \o @]

\* one part of the argument list, trimmed: skipped, refused or parsed
parseArgPart(part, rest) ==
    IF part = <<>> THEN rest
    ELSE IF Index(part, ":") = 0 \/ ~rest.ok THEN [ok |-> FALSE, args |-> <<>>]
    ELSE [rest EXCEPT !.args =
              <<parseArgType(Join(TrimSpaces(SubSeq(part, 1, Index(part, ":") - 1))),
                             TrimSpaces(SubSeq(part, Index(part, ":") + 1, Len(part))))>>
              \o @]

RECURSIVE parseArgParts(_, _)
\* the loop over the parts: [ok, args]
parseArgParts(parts, i) ==
    IF i > Len(parts) THEN [ok |-> TRUE, args |-> <<>>]
    ELSE parseArgPart(TrimSpaces(parts[i]), parseArgParts(parts, i + 1))

\* the result is [ok, args]; ok = FALSE is the error "invalid arg"
parseArgs(argsStr) ==
    IF TrimSpaces(argsStr) = <<>> THEN [ok |-> TRUE, args |-> <<>>]
    ELSE parseArgParts(splitArgs(argsStr), 1)

(***************************************************************************)
(* A Call and its methods.                                                 *)
(***************************************************************************)
RECURSIVE pathParamsFrom(_, _, _, _)
\* the loop of PathParams from character i on
pathParamsFrom(path, i, inParam, current) ==
    IF i > Len(path) THEN <<>>
    ELSE IF path[i] = "{" THEN pathParamsFrom(path, i + 1, TRUE, "")
    ELSE IF path[i] = "}"
         THEN (IF current # "" THEN <<current>> ELSE <<>>)
              \o pathParamsFrom(path, i + 1, FALSE, current)
    ELSE IF inParam THEN pathParamsFrom(path, i + 1, TRUE, current \o path[i])
    ELSE pathParamsFrom(path, i + 1, inParam, current)

PathParams(c) == pathParamsFrom(c.Path, 1, FALSE, "")

PathParamSet(c) == Range(PathParams(c))

\* a switch with the case "POST" alone
IsBodyMethodPostOnly(c) == c.Method = "POST"

IsBodyMethod(c) == c.Method \in {"POST", "PUT", "PATCH"}

\* the arguments whose name is not a path parameter, in declaration order
nonPathArgs(c) == SelectSeq(c.Args, LAMBDA arg : arg.Name \notin PathParamSet(c))

NilArg == [isNil |-> TRUE, arg |-> [Name |-> "", Type |-> "", Required |-> FALSE, IsList |-> FALSE]]

BodyArg(c) ==
    IF ~IsBodyMethod(c) THEN NilArg
    ELSE IF nonPathArgs(c) = <<>> THEN NilArg
    ELSE [isNil |-> FALSE, arg |-> nonPathArgs(c)[1]]

\* QueryArgs without the test against the path parameters
QueryArgsUnfiltered(c) == IF IsBodyMethod(c) THEN <<>> ELSE c.Args

QueryArgs(c) == IF IsBodyMethod(c) THEN <<>> ELSE nonPathArgs(c)

RECURSIVE argNames(_)
argNames(args) == IF args = <<>> THEN <<>> ELSE <<Head(args).Name>> \o argNames(Tail(args))

PathArgNames(c) ==
    argNames(SelectSeq(c.Args, LAMBDA arg : arg.Name \in PathParamSet(c)))

ValidationError(call, what) == [kind |-> "validation", call |-> call, what |-> what]

\* the path parameters without a same-named argument, as the range over the
\* map meets them
unmatchedParams(c, order) ==
    SelectSeq(order, LAMBDA param : /\ param \in PathParamSet(c)
                                    /\ \A i \in DOMAIN c.Args : c.Args[i].Name # param)

\* Validate without its loop over the path parameters
ValidateBodyOnly(c, order) ==
    IF IsBodyMethod(c) /\ Len(nonPathArgs(c)) > 1 THEN ValidationError(c.Name, "body")
    ELSE NoError

\* `order` is the order in which the range over pathParams yields its keys
Validate(c, order) ==
    IF IsBodyMethod(c) /\ Len(nonPathArgs(c)) > 1 THEN ValidationError(c.Name, "body")
    ELSE IF unmatchedParams(c, order) # <<>>
         THEN ValidationError(c.Name, unmatchedParams(c, order)[1])
    ELSE NoError

(***************************************************************************)
(* The text of a schema file is a sequence of lines: the opening line of a *)
(* block, its closing brace, a line of a Calls block, a line of a type or  *)
(* input block.                                                            *)
(***************************************************************************)
Line(kind, name, args, ret, verb, path, text) ==
    [kind |-> kind, name |-> name, args |-> args, ret |-> ret, verb |-> verb,
     path |-> path, text |-> text]

OpenLine(kind, name) == Line("open", name, <<>>, <<>>, "", <<>>, <<kind>>)

CloseLine == Line("close", "", <<>>, <<>>, "", <<>>, <<"}">>)

CallLine(name, args, ret, verb, path) == Line("call", name, args, ret, verb, path, <<>>)

FieldLine(text) == Line("field", "", <<>>, <<>>, "", <<>>, text)

Verbs == {"get", "post", "put", "patch", "delete"}

Punctuation == {"[", "]", "!", ":", ",", "{", "}", "/", "#", "sp", "(", ")"}

\* \[?[\w.]+!?\]?!? on the return type
returnTypeRe(ret) ==
    \E open, inner, close, outer \in BOOLEAN :
        \E name \in Range(ret) \ Punctuation :
            ret = (IF open THEN <<"[">> ELSE <<>>) \o <<name>>
                  \o (IF inner THEN <<"!">> ELSE <<>>)
                  \o (IF close THEN <<"]">> ELSE <<>>)
                  \o (IF outer THEN <<"!">> ELSE <<>>)

\* callRe on one line of the Calls block
callRe(line) ==
    /\ line.kind = "call"
    /\ line.name \notin Punctuation
    /\ ")" \notin Range(line.args)
    /\ returnTypeRe(line.ret)
    /\ line.verb \in Verbs
    /\ line.path # <<>>

ToUpper(verb) ==
    CASE verb = "get" -> "GET"
      [] verb = "post" -> "POST"
      [] verb = "put" -> "PUT"
      [] verb = "patch" -> "PATCH"
      [] verb = "delete" -> "DELETE"
      [] OTHER -> verb

\* the Call of a matched line with its parsed arguments
callOf(m, args) ==
    [Name |-> m.name, Method |-> ToUpper(m.verb), Path |-> m.path, Args |-> args,
     ReturnType |-> parseReturnType(m.ret).ReturnType,
     ReturnRequired |-> parseReturnType(m.ret).ReturnRequired,
     ReturnIsList |-> parseReturnType(m.ret).ReturnIsList]

ParseError(call, what) == [kind |-> "parse", call |-> call, what |-> what]

\* one match of callRe: its arguments are parsed, the call is validated, and
\* the first error ends the loop
parseCall(m, parsed, order, rest) ==
    IF ~parsed.ok THEN [err |-> ParseError(m.name, "invalid arg"), calls |-> <<>>]
    ELSE IF Validate(callOf(m, parsed.args), order) # NoError
         THEN [err |-> Validate(callOf(m, parsed.args), order), calls |-> <<>>]
    ELSE IF rest.err # NoError THEN rest
    ELSE [rest EXCEPT !.calls = <<callOf(m, parsed.args)>> \o @]

RECURSIVE parseCallsFrom(_, _, _)
\* the loop over the matches of callRe in the body: [err, calls]
parseCallsFrom(body, i, order) ==
    IF i > Len(body) THEN [err |-> NoError, calls |-> <<>>]
    ELSE IF ~callRe(body[i]) THEN parseCallsFrom(body, i + 1, order)
    ELSE parseCall(body[i], parseArgs(body[i].args), order,
                   parseCallsFrom(body, i + 1, order))

parseCalls(body, order) == parseCallsFrom(body, 1, order)

\* one line of a type or input block: skipped when it is empty, a comment or
\* has no colon
parseField(line, rest) ==
    IF line = <<>> \/ HasPrefix(line, "#") THEN rest
    ELSE IF Index(line, ":") = 0 THEN rest
    ELSE <<parseFieldType(Join(TrimSpaces(SubSeq(line, 1, Index(line, ":") - 1))),
                          TrimSpaces(SubSeq(line, Index(line, ":") + 1, Len(line))))>>
         \o rest

RECURSIVE parseFieldsFrom(_, _)
parseFieldsFrom(body, i) ==
    IF i > Len(body) THEN <<>>
    ELSE parseField(TrimSpaces(body[i].text), parseFieldsFrom(body, i + 1))

\* parseFields returns no error on any input
parseFields(body) == parseFieldsFrom(body, 1)

parseTypeDef(name, body) == [Name |-> name, Fields |-> parseFields(body)]

parseInputDef(name, body) == [Name |-> name, Fields |-> parseFields(body)]

RECURSIVE bodyEndFirstClose(_, _, _, _)
\* A loop that takes the first closing brace, whatever was opened before it.
bodyEndFirstClose(content, i, depth, bodyStart) ==
    IF i > Len(content) THEN bodyStart
    ELSE IF content[i].kind = "close" THEN i
    ELSE bodyEndFirstClose(content, i + 1, depth, bodyStart)

RECURSIVE bodyEndFrom(_, _, _, _)
\* the brace-matching loop of extractBlocks: the line of the closing brace,
\* or bodyStart when the text ends first; a header line and a line that is
\* an opening brace alone both open
bodyEndFrom(content, i, depth, bodyStart) ==
    IF i > Len(content) THEN bodyStart
    ELSE IF content[i].kind \in {"open", "brace"}
         THEN bodyEndFrom(content, i + 1, depth + 1, bodyStart)
    ELSE IF content[i].kind = "close"
         THEN (IF depth = 1 THEN i ELSE bodyEndFrom(content, i + 1, depth - 1, bodyStart))
    ELSE bodyEndFrom(content, i + 1, depth, bodyStart)

RECURSIVE extractBlocksFrom(_, _)
extractBlocksFrom(content, i) ==
    IF i > Len(content) THEN <<>>
    ELSE IF content[i].kind = "open"
         THEN <<[kind |-> content[i].text[1], name |-> content[i].name,
                 body |-> SubSeq(content, i + 1, bodyEndFrom(content, i + 1, 1, i + 1) - 1)]>>
              \o extractBlocksFrom(content, i + 1)
    ELSE extractBlocksFrom(content, i + 1)

extractBlocks(content) == extractBlocksFrom(content, 1)

\* one block of the loop of Parse over the blocks, `s` being the Schema so far
parseBlock(block, calls, s) ==
    IF block.name = "Calls"
    THEN (IF calls.err # NoError THEN [NoCompile EXCEPT !.err = calls.err]
          ELSE [s EXCEPT !.schema.Calls = calls.calls])
    ELSE IF block.kind = "type"
         THEN [s EXCEPT !.schema.Types = Append(@, parseTypeDef(block.name, block.body))]
    ELSE IF block.kind = "input"
         THEN [s EXCEPT !.schema.Inputs = Append(@, parseInputDef(block.name, block.body))]
    ELSE s

RECURSIVE parseBlocksFrom(_, _, _, _)
\* the loop over the blocks, left as soon as a block fails
parseBlocksFrom(blocks, i, order, s) ==
    IF i > Len(blocks) \/ s.isNil THEN s
    ELSE parseBlocksFrom(blocks, i + 1, order,
                         parseBlock(blocks[i], parseCalls(blocks[i].body, order), s))

\* Parse of a text without directives: [isNil, schema, err]
Parse(content, order) ==
    parseBlocksFrom(extractBlocks(content), 1, order,
                    [isNil |-> FALSE, schema |-> NoSchema, err |-> NoError])

(***************************************************************************)
(* Compiling one schema file: lines are written, the text is compiled, the *)
(* result is looked at, and the text is given up for another.              *)
(***************************************************************************)
MaxLines == 2

\* the names a route path of the texts below puts in braces
ParamNames == {"id", "itemId"}

\* the call lines go to the Calls block, the field lines to a type block and
\* to an input block
Content(lines) ==
    <<OpenLine("type", "Calls")>> \o SelectSeq(lines, LAMBDA l : l.kind = "call")
    \o <<CloseLine, OpenLine("type", "Contact")>>
    \o SelectSeq(lines, LAMBDA l : l.kind = "field")
    \o <<CloseLine, OpenLine("input", "ContactInput")>>
    \o SelectSeq(lines, LAMBDA l : l.kind = "field")
    \o <<CloseLine>>

\* route paths and argument lists of the call lines
RouteShapes ==
    << [path |-> <<"/">>, args |-> <<>>],
       [path |-> <<"/">>, args |-> <<"a", ":", "sp", "String", ",", "sp", "b", ":", "sp", "String">>],
       [path |-> <<"/", "{", "id", "}">>,
        args |-> <<"id", ":", "sp", "ID", "!", ",", "sp", "input", ":", "sp", "UpdateInput", "!">>],
       [path |-> <<"/", "{", "id", "}">>, args |-> <<"input", ":", "sp", "UpdateInput", "!">>],
       [path |-> <<"/", "{", "id", "}">>,
        args |-> <<"a", ":", "sp", "String", ",", "sp", "b", ":", "sp", "String">>],
       [path |-> <<"/", "{", "id", "}", "/", "items", "/", "{", "itemId", "}">>,
        args |-> <<"itemId", ":", "sp", "ID", "!", ",", "sp", "q", ":", "sp",
                   "[", "String", "!", "]", "!", ",", "sp", "id", ":", "sp", "ID", "!">>],
       [path |-> <<"/", "{", "id", "}", "/", "items", "/", "{", "itemId", "}">>,
        args |-> <<"q", ":", "sp", "String">>],
       [path |-> <<"/">>, args |-> <<"junk">>],
       [path |-> <<"/", "{", "id", "}">>,
        args |-> <<"id", ":", "sp", "ID", "!", ",", "sp", "junk", "sp", ",">>] >>

ShapeNames == <<"s1", "s2", "s3", "s4", "s5", "s6", "s7", "s8", "s9">>

\* the lines of the Calls block that are written: every verb on every shape
CallLines ==
    { CallLine(verb \o ShapeNames[k], RouteShapes[k].args, <<"Contact", "!">>, verb,
               RouteShapes[k].path) : verb \in Verbs, k \in DOMAIN RouteShapes }

addLine(line) ==
    /\ sdlPc = "editing"
    /\ Len(sdlLines) < MaxLines
    /\ sdlLines' = Append(sdlLines, line)
    /\ UNCHANGED <<sdlResult, sdlPc, notParseVars>>

\* Parser.Parse on the text; the range over the path parameters of a call
\* takes one of its orders
compile ==
    /\ sdlPc = "editing"
    /\ \E order \in Perms(ParamNames) :
           sdlResult' = Parse(Content(sdlLines), order)
    /\ sdlPc' = "compiled"
    /\ UNCHANGED <<sdlLines, notParseVars>>

discardText ==
    /\ sdlPc = "compiled"
    /\ sdlLines' = <<>>
    /\ sdlResult' = NoCompile
    /\ sdlPc' = "editing"
    /\ UNCHANGED notParseVars

NextCalls ==
    \/ \E line \in CallLines : addLine(line)
    \/ compile
    \/ discardText

SpecCalls == Init /\ [][NextCalls]_vars

\* the forms of a reference to the type t: the four of the README and the
\* two mixed ones
TypeForms(t) ==
    << <<t, "!">>, <<t>>, <<"[", t, "!", "]", "!">>, <<"[", t, "]">>,
       <<"[", t, "]", "!">>, <<"[", t, "!", "]">> >>

FormNames == <<"f1", "f2", "f3", "f4", "f5", "f6">>

\* the lines of a type or input block that are written: a field of every
\* form, a field of a namespaced type, a field with spaces around its parts,
\* a line without colon, a comment and a blank line
FieldLines ==
    { FieldLine(<<"sp", "sp", FormNames[k], ":", "sp">> \o TypeForms("Contact")[k]) :
          k \in DOMAIN FormNames }
    \cup { FieldLine(<<"sp", "sp", "loc", ":", "sp", "geo.Location", "!">>),
           FieldLine(<<"sp", "sp", "owner", "sp", ":", "sp", "sp", "Contact", "!", "sp">>),
           FieldLine(<<"sp", "sp", "junk">>),
           FieldLine(<<"sp", "sp", "#", "sp", "note", ":", "sp", "Contact">>),
           FieldLine(<<"sp", "sp">>) }

\* the call lines with an argument of one form and a return type of the same
\* or of the next form
FormCallLines ==
    { CallLine("get" \o FormNames[k] \o FormNames[r],
               <<"filter", ":", "sp">> \o TypeForms("ContactFilter")[k],
               TypeForms("Contact")[r], "get", <<"/">>) :
          k \in DOMAIN FormNames, r \in DOMAIN FormNames }

TypeLines ==
    FieldLines
    \cup {l \in FormCallLines :
              \E k \in DOMAIN FormNames :
                  /\ l.args = <<"filter", ":", "sp">> \o TypeForms("ContactFilter")[k]
                  /\ l.ret \in {TypeForms("Contact")[k], TypeForms("Contact")[(k % 6) + 1]}}

NextTypes ==
    \/ \E line \in TypeLines : addLine(line)
    \/ compile
    \/ discardText

SpecTypes == Init /\ [][NextTypes]_vars

(***************************************************************************)
(* Properties of the compilation of one schema file.  What the text says   *)
(* is read off the written lines here, not off the parsed Call.            *)
(***************************************************************************)
\* the names the route path puts in braces
BracedNames(path) ==
    {path[i] : i \in {j \in 2..(Len(path) - 1) : path[j - 1] = "{" /\ path[j + 1] = "}"}}

\* the names the argument list declares
DeclaredNames(args) == {args[i] : i \in {j \in 1..(Len(args) - 1) : args[j + 1] = ":"}}

MissingParams(line) == BracedNames(line.path) \ DeclaredNames(line.args)

\* the declared names that are no path parameter
NonPathNames(line) == DeclaredNames(line.args) \ BracedNames(line.path)

BodyVerb(line) == line.verb \in {"post", "put", "patch"}

\* every argument between two top-level commas is empty or has a colon
WellFormedArgs(line) ==
    \A k \in DOMAIN splitArgs(line.args) :
        TrimSpaces(splitArgs(line.args)[k]) = <<>> \/ ":" \in Range(splitArgs(line.args)[k])

\* the positions of the lines of the Calls block that yield a Call
ParsedCalls == {i \in DOMAIN sdlLines : sdlLines[i].kind = "call" /\ WellFormedArgs(sdlLines[i])}

\* the line alone compiles
Faultless(line) ==
    /\ WellFormedArgs(line)
    /\ MissingParams(line) = {}
    /\ ~(BodyVerb(line) /\ Cardinality(NonPathNames(line)) > 1)

CompileFailed == sdlPc = "compiled" /\ sdlResult.isNil /\ sdlResult.err # NoError

NamesMissingParam(line) ==
    /\ sdlResult.err.kind = "validation"
    /\ sdlResult.err.call = line.name
    /\ sdlResult.err.what \in MissingParams(line)

\* C11 as stated: whenever a call of the Calls block has a {param} without a
\* same-named argument, the compilation fails with a validation error that
\* names this call and a missing parameter, and there is no Schema; a call
\* whose {param}s all have their argument is not refused by this check.
C11_PathParamValidation ==
    sdlPc = "compiled" =>
        \A i \in ParsedCalls :
            /\ MissingParams(sdlLines[i]) # {} =>
                   CompileFailed /\ NamesMissingParam(sdlLines[i])
            /\ MissingParams(sdlLines[i]) = {} =>
                   ~(sdlResult.err.kind = "validation" /\ sdlResult.err.call = sdlLines[i].name
                     /\ sdlResult.err.what \in ParamNames)

\* C11 amended: a call with a {param} without a same-named argument makes the
\* compilation fail without a Schema; the error is the validation error
\* naming this call and a missing parameter when no earlier call fails and
\* the call does not fail the body-argument check, which comes first; a call
\* whose {param}s all have their argument is not refused by this check.
C11_PathParamValidationFirstFailure ==
    sdlPc = "compiled" =>
        \A i \in ParsedCalls :
            /\ MissingParams(sdlLines[i]) # {} =>
                   /\ CompileFailed
                   /\ sdlResult.schema = NoSchema
                   /\ ( /\ \A j \in 1..(i - 1) : Faultless(sdlLines[j])
                        /\ ~(BodyVerb(sdlLines[i]) /\ Cardinality(NonPathNames(sdlLines[i])) > 1)
                        => NamesMissingParam(sdlLines[i]) )
            /\ MissingParams(sdlLines[i]) = {} =>
                   ~(sdlResult.err.kind = "validation" /\ sdlResult.err.call = sdlLines[i].name
                     /\ sdlResult.err.what \in ParamNames)

\* a faultless call, then a call with two missing parameters, refused for the
\* second of them
C11_Witness ==
    /\ sdlPc = "compiled"
    /\ Len(sdlLines) = 2
    /\ Faultless(sdlLines[1])
    /\ MissingParams(sdlLines[2]) = {"id", "itemId"}
    /\ CompileFailed
    /\ sdlResult.err = ValidationError(sdlLines[2].name, "itemId")

TooManyBodyArgs(line) == BodyVerb(line) /\ Cardinality(NonPathNames(line)) > 1

\* C12: a POST, PUT or PATCH call with more than one argument that matches no
\* path parameter makes the compilation of the file fail without a Schema,
\* with the validation error of this call when no earlier call has failed; a
\* GET or DELETE call is never refused for its non-path arguments, so a text
\* whose calls have well-formed arguments, matched path parameters and, on
\* the body verbs, at most one non-path argument compiles to all its calls.
C12_BodyArgValidation ==
    sdlPc = "compiled" =>
        /\ \A i \in ParsedCalls :
               /\ TooManyBodyArgs(sdlLines[i]) =>
                      /\ CompileFailed
                      /\ sdlResult.schema = NoSchema
                      /\ (\A j \in 1..(i - 1) : Faultless(sdlLines[j]))
                             => sdlResult.err = ValidationError(sdlLines[i].name, "body")
               /\ ~BodyVerb(sdlLines[i]) =>
                      ~(sdlResult.err.kind = "validation" /\ sdlResult.err.what = "body"
                        /\ sdlResult.err.call = sdlLines[i].name)
        /\ (\A i \in DOMAIN sdlLines :
                /\ WellFormedArgs(sdlLines[i])
                /\ MissingParams(sdlLines[i]) = {}
                /\ ~TooManyBodyArgs(sdlLines[i]))
               => /\ ~sdlResult.isNil
                  /\ sdlResult.err = NoError
                  /\ Len(sdlResult.schema.Calls) = Len(sdlLines)

\* a GET call with two non-path arguments is accepted and the PUT call behind
\* it, with the same arguments, is refused
C12_Witness ==
    /\ sdlPc = "compiled"
    /\ Len(sdlLines) = 2
    /\ sdlLines[1].verb = "get"
    /\ sdlLines[2].verb = "put"
    /\ sdlLines[1].args = sdlLines[2].args
    /\ Cardinality(NonPathNames(sdlLines[1])) = 2
    /\ MissingParams(sdlLines[2]) = {}
    /\ sdlResult.isNil
    /\ sdlResult.err = ValidationError(sdlLines[2].name, "body")

\* a text of GET and DELETE calls with two non-path arguments each compiles
C12_WitnessAccepted ==
    /\ sdlPc = "compiled"
    /\ Len(sdlLines) = 2
    /\ sdlLines[1].verb = "get"
    /\ sdlLines[2].verb = "delete"
    /\ \A i \in 1..2 : Cardinality(NonPathNames(sdlLines[i])) = 2
    /\ ~sdlResult.isNil
    /\ Len(sdlResult.schema.Calls) = 2

RECURSIVE declaredFrom(_, _)
\* the names the argument list declares, in the order of the text
declaredFrom(args, i) ==
    IF i >= Len(args) THEN <<>>
    ELSE (IF args[i + 1] = ":" THEN <<args[i]>> ELSE <<>>) \o declaredFrom(args, i + 1)

DeclaredPath(line) ==
    SelectSeq(declaredFrom(line.args, 1), LAMBDA n : n \in BracedNames(line.path))

DeclaredRest(line) ==
    SelectSeq(declaredFrom(line.args, 1), LAMBDA n : n \notin BracedNames(line.path))

\* the routing of the Call c of the line
RoutedAsDeclared(line, c) ==
    /\ PathArgNames(c) = DeclaredPath(line)
    /\ IF BodyVerb(line)
       THEN /\ QueryArgs(c) = <<>>
            /\ Len(DeclaredRest(line)) <= 1
            /\ DeclaredRest(line) = <<>> => BodyArg(c).isNil
            /\ DeclaredRest(line) # <<>> =>
                   ~BodyArg(c).isNil /\ BodyArg(c).arg.Name = DeclaredRest(line)[1]
                   /\ BodyArg(c).arg \in Range(c.Args)
       ELSE /\ BodyArg(c).isNil
            /\ argNames(QueryArgs(c)) = DeclaredRest(line)
            /\ Range(QueryArgs(c)) \subseteq Range(c.Args)
    /\ Len(PathArgNames(c)) + Len(QueryArgs(c)) + (IF BodyArg(c).isNil THEN 0 ELSE 1)
           = Len(c.Args)

\* C13: every Call of a compiled Schema, which has passed Validate, routes
\* each argument to one place: the arguments named like a path parameter are
\* the path arguments; on POST/PUT/PATCH the one remaining argument, if any,
\* is BodyArg and QueryArgs is empty; on GET/DELETE the remaining arguments
\* are QueryArgs in the order of their declaration and BodyArg is nil.
C13_ArgumentRouting ==
    (sdlPc = "compiled" /\ ~sdlResult.isNil) =>
        /\ Len(sdlResult.schema.Calls) = Len(sdlLines)
        /\ \A k \in DOMAIN sdlResult.schema.Calls :
               /\ sdlResult.schema.Calls[k].Name = sdlLines[k].name
               /\ Validate(sdlResult.schema.Calls[k], <<"id", "itemId">>) = NoError
               /\ RoutedAsDeclared(sdlLines[k], sdlResult.schema.Calls[k])

\* a PUT call with two path arguments around its body argument, and a GET
\* call with two query arguments
C13_Witness ==
    /\ sdlPc = "compiled"
    /\ ~sdlResult.isNil
    /\ Len(sdlResult.schema.Calls) = 2
    /\ sdlResult.schema.Calls[1].Method = "PUT"
    /\ PathArgNames(sdlResult.schema.Calls[1]) = <<"itemId", "id">>
    /\ BodyArg(sdlResult.schema.Calls[1]).arg.Name = "q"
    /\ sdlResult.schema.Calls[2].Method = "GET"
    /\ argNames(QueryArgs(sdlResult.schema.Calls[2])) = <<"a", "b">>

(***************************************************************************)
(* Properties of the type references.                                      *)
(***************************************************************************)
\* the canonical text of a type reference with these flags
RenderTypeRef(name, required, isList) ==
    IF isList
    THEN (IF required THEN <<"[", name, "!", "]", "!">> ELSE <<"[", name, "]">>)
    ELSE (IF required THEN <<name, "!">> ELSE <<name>>)

\* the four forms T!, T, [T!]!, [T] of the name in the text
FourForms(typeText) ==
    {RenderTypeRef(name, required, isList) :
         name \in Range(typeText) \ Punctuation, required \in BOOLEAN, isList \in BOOLEAN}

\* the text behind the first colon
TextAfterColon(text) == TrimSpaces(SubSeq(text, Index(text, ":") + 1, Len(text)))

\* the lines of a block that declare a field
DeclaringLines ==
    SelectSeq(sdlLines, LAMBDA l : /\ l.kind = "field"
                                   /\ ":" \in Range(l.text)
                                   /\ ~HasPrefix(TrimSpaces(l.text), "#"))

CallsOfText == SelectSeq(sdlLines, LAMBDA l : l.kind = "call")

\* the parsed name and flags say what the text says
SameForm(typeText, name, required, isList) ==
    typeText \in FourForms(typeText) =>
        /\ RenderTypeRef(name, required, isList) = typeText
        /\ name \notin Punctuation
        /\ required = (typeText[Len(typeText)] = "!")
        /\ isList = (typeText[1] = "[")

FieldsSameForm(fields) ==
    /\ Len(fields) = Len(DeclaringLines)
    /\ \A k \in DOMAIN fields :
           SameForm(TextAfterColon(DeclaringLines[k].text), fields[k].Type,
                    fields[k].Required, fields[k].IsList)

\* C14: for a type reference written as T!, T, [T!]! or [T], the parsers of
\* arguments, of fields and of return types yield the name T and the flags
\* (required, list) of the form, so that rendering the flags gives the text
\* back; [Contact!]! as a return type is a required list of "Contact".
C14_NullabilityParsing ==
    (sdlPc = "compiled" /\ ~sdlResult.isNil) =>
        /\ Len(sdlResult.schema.Types) = 1
        /\ Len(sdlResult.schema.Inputs) = 1
        /\ FieldsSameForm(sdlResult.schema.Types[1].Fields)
        /\ FieldsSameForm(sdlResult.schema.Inputs[1].Fields)
        /\ Len(sdlResult.schema.Calls) = Len(CallsOfText)
        /\ \A k \in DOMAIN sdlResult.schema.Calls :
               /\ SameForm(CallsOfText[k].ret, sdlResult.schema.Calls[k].ReturnType,
                           sdlResult.schema.Calls[k].ReturnRequired,
                           sdlResult.schema.Calls[k].ReturnIsList)
               /\ CallsOfText[k].ret = <<"[", "Contact", "!", "]", "!">> =>
                      /\ sdlResult.schema.Calls[k].ReturnIsList
                      /\ sdlResult.schema.Calls[k].ReturnRequired
                      /\ sdlResult.schema.Calls[k].ReturnType = "Contact"
               /\ \A a \in DOMAIN sdlResult.schema.Calls[k].Args :
                      SameForm(TextAfterColon(CallsOfText[k].args),
                               sdlResult.schema.Calls[k].Args[a].Type,
                               sdlResult.schema.Calls[k].Args[a].Required,
                               sdlResult.schema.Calls[k].Args[a].IsList)

\* listContacts(filter: ContactFilter): [Contact!]! next to a field [Contact]
C14_Witness ==
    /\ sdlPc = "compiled"
    /\ ~sdlResult.isNil
    /\ Len(sdlResult.schema.Calls) = 1
    /\ CallsOfText[1].ret = <<"[", "Contact", "!", "]", "!">>
    /\ sdlResult.schema.Calls[1].Args[1] =
           [Name |-> "filter", Type |-> "ContactFilter", Required |-> FALSE, IsList |-> FALSE]
    /\ sdlResult.schema.Calls[1].ReturnIsList
    /\ sdlResult.schema.Calls[1].ReturnRequired
    /\ sdlResult.schema.Calls[1].ReturnType = "Contact"
    /\ sdlResult.schema.Types[1].Fields =
           <<[Name |-> "f4", Type |-> "Contact", Required |-> FALSE, IsList |-> TRUE]>>

MalformedFieldLine(l) ==
    /\ l.kind = "field"
    /\ TrimSpaces(l.text) # <<>>
    /\ ~HasPrefix(TrimSpaces(l.text), "#")
    /\ ":" \notin Range(l.text)

\* C19: a non-empty line of a type or input block that is no comment and has
\* no colon makes the compilation of the whole file fail with an error and
\* without a Schema.
C19_MalformedFieldLine ==
    sdlPc = "compiled" =>
        ((\E i \in DOMAIN sdlLines : MalformedFieldLine(sdlLines[i])) => CompileFailed)

(***************************************************************************)
(* Files with include directives: path/filepath, Parser.ParseFile and      *)
(* parseInclude.  The Parser is threaded through the calls as the record   *)
(* p; beside baseDir and cache it keeps what was read, which include was   *)
(* resolved to which path, what was parsed and what each call returned.    *)
(***************************************************************************)
PathIsAbs(path) == path # <<>> /\ path[1] = Root

\* one segment of filepath.Clean: "." goes, ".." takes the segment before it
\* unless that is the root or a ".." itself
cleanSegment(out, seg) ==
    IF seg = <<".">> THEN out
    ELSE IF seg = <<"..">>
         THEN (IF out = <<>> \/ out[Len(out)] = <<"..">> THEN Append(out, seg)
               ELSE IF out[Len(out)] = Root THEN out
               ELSE SubSeq(out, 1, Len(out) - 1))
    ELSE Append(out, seg)

RECURSIVE cleanFrom(_, _, _)
cleanFrom(path, i, out) ==
    IF i > Len(path) THEN out ELSE cleanFrom(path, i + 1, cleanSegment(out, path[i]))

PathClean(path) ==
    IF cleanFrom(path, 1, <<>>) = <<>> THEN <<<<".">>>> ELSE cleanFrom(path, 1, <<>>)

PathJoin(dir, path) == PathClean(dir \o path)

PathAbs(path) == IF PathIsAbs(path) THEN PathClean(path) ELSE PathJoin(Cwd, path)

PathDir(path) == IF Len(path) <= 1 THEN path ELSE SubSeq(path, 1, Len(path) - 1)

PathBase(path) == path[Len(path)]

\* os.ReadFile succeeds
Readable(absPath) == absPath \in DOMAIN incFiles /\ incFiles[absPath].exists

\* the package reference in the @models directive of the file
ModelsOf(absPath) ==
    CASE absPath = MainSdl -> "pkg/api"
      [] absPath = GeoSdl -> "pkg/geo"
      [] absPath = CommonSdl -> "pkg/common"
      [] absPath = SubCommonSdl -> "pkg/sub/common"
      [] OTHER -> ""

\* the blocks of the file: main.sdl refers to types of its includes in a
\* field, an argument and a return type; a file that is not sound has a call
\* with an argument without colon
LinesOf(absPath) ==
    IF ~incFiles[absPath].sound
    THEN <<CallLine("locate", <<"junk">>, <<"Location">>, "get", <<"/">>)>>
    ELSE IF absPath = MainSdl
    THEN <<FieldLine(<<"sp", "sp", "location", ":", "sp", "geo.Location", "!">>),
           FieldLine(<<"sp", "sp", "price", ":", "sp", "[", "common_types.Money", "!", "]", "!">>),
           CallLine("near", <<"at", ":", "sp", "geo.Location">>,
                    <<"[", "geo.Location", "!", "]", "!">>, "get", <<"/">>)>>
    ELSE IF absPath = GeoSdl
    THEN <<FieldLine(<<"sp", "sp", "lat", ":", "sp", "Float", "!">>)>>
    ELSE <<FieldLine(<<"sp", "sp", "amount", ":", "sp", "Int", "!">>)>>

\* strings.ReplaceAll(namespace, "-", "_")
ReplaceAll(name, old, new) == [i \in DOMAIN name |-> IF name[i] = old THEN new ELSE name[i]]

\* the namespace without the replacement of the hyphens
NamespaceWithHyphens(includePath) == Join(TrimSuffix(PathBase(includePath), ".sdl"))

\* the namespace of an include path
Namespace(includePath) ==
    Join(ReplaceAll(TrimSuffix(PathBase(includePath), ".sdl"), "-", "_"))

ReadError == [kind |-> "read", call |-> "", what |-> "reading file"]

\* the path parseInclude hands to ParseFile
fullPath(p, includePath) ==
    IF ~PathIsAbs(includePath) /\ p.baseDir # <<>>
    THEN PathJoin(p.baseDir, includePath)
    ELSE includePath

\* ParseFile returns the cached Schema
parseFileCached(p, absPath) ==
    [p |-> [p EXCEPT !.answers = Append(@, [path |-> absPath, hit |-> TRUE,
                                            ptr |-> p.cache[absPath].ptr])],
     isNil |-> FALSE, schema |-> p.cache[absPath], err |-> NoError]

\* ParseFile fails: no cache entry is made
parseFileFailed(p, absPath, err) ==
    [p |-> [p EXCEPT !.answers = Append(@, [path |-> absPath, hit |-> FALSE, ptr |-> 0])],
     isNil |-> TRUE, schema |-> NoSchema, err |-> err]

\* ParseFile returns the Schema without storing it
parseFileNotStored(p, absPath, s) ==
    [p |-> [p EXCEPT !.parsed = Append(@, absPath),
                     !.answers = Append(@, [path |-> absPath, hit |-> FALSE, ptr |-> s.ptr])],
     isNil |-> FALSE, schema |-> s, err |-> NoError]

\* ParseFile sets FileName, stores the Schema in the cache and returns it;
\* ptr tells the Schema values apart
parseFileStored(p, absPath, s) ==
    [p |-> [p EXCEPT !.cache = [k \in (DOMAIN p.cache) \cup {absPath} |->
                                    IF k = absPath THEN s ELSE p.cache[k]],
                     !.parsed = Append(@, absPath),
                     !.answers = Append(@, [path |-> absPath, hit |-> FALSE, ptr |-> s.ptr])],
     isNil |-> FALSE, schema |-> s, err |-> NoError]

\* the Schema of Parse: the blocks, the @models directive and the includes
schemaOf(blocks, absPath, includes) ==
    [blocks.schema EXCEPT !.Models = ModelsOf(absPath), !.Includes = includes]

\* the end of Parse and of ParseFile, after the loop over the includes
parseFileEnd(inc, blocks, path, absPath) ==
    IF ~inc.ok THEN parseFileFailed(inc.p, absPath, inc.err)
    ELSE IF blocks.isNil THEN parseFileFailed(inc.p, absPath, blocks.err)
    ELSE parseFileStored(inc.p, absPath,
                         [schemaOf(blocks, absPath, inc.includes)
                              EXCEPT !.FileName = PathBase(path)]
                         @@ [ptr |-> Len(inc.p.parsed) + 1])

RECURSIVE ParserParseFile(_, _)
RECURSIVE parseIncludesFrom(_, _, _, _, _)

\* the end of parseInclude: the Include record, or the error of ParseFile
parseIncluded(r, includePath, includes) ==
    IF r.isNil THEN [p |-> r.p, ok |-> FALSE, includes |-> <<>>, err |-> r.err]
    ELSE [p |-> r.p, ok |-> TRUE, err |-> NoError,
          includes |-> Append(includes, [Path |-> includePath,
                                         Namespace |-> Namespace(includePath),
                                         Models |-> r.schema.Models])]

\* parseInclude for the directive of the file `from`
parseInclude(p, includePath, from, includes) ==
    parseIncluded(ParserParseFile([p EXCEPT !.resolved =
                                       Append(@, [from |-> from, include |-> includePath,
                                                  full |-> fullPath(p, includePath)])],
                                  fullPath(p, includePath)),
                  includePath, includes)

\* the loop of Parse over the include directives, left at the first error
parseIncludeNext(r, directives, i, from) ==
    IF ~r.ok THEN r ELSE parseIncludesFrom(r.p, directives, i + 1, from, r.includes)

parseIncludesFrom(p, directives, i, from, includes) ==
    IF i > Len(directives)
    THEN [p |-> p, ok |-> TRUE, includes |-> includes, err |-> NoError]
    ELSE parseIncludeNext(parseInclude(p, directives[i], from, includes), directives, i, from)

\* Parser.ParseFile: [p, isNil, schema, err]
ParserParseFile(p, path) ==
    IF PathAbs(path) \in DOMAIN p.cache THEN parseFileCached(p, PathAbs(path))
    ELSE IF ~Readable(PathAbs(path))
         THEN parseFileFailed([p EXCEPT !.reads = Append(@, PathAbs(path))],
                              PathAbs(path), ReadError)
    ELSE parseFileEnd(parseIncludesFrom([p EXCEPT !.reads = Append(@, PathAbs(path)),
                                                  !.baseDir = PathDir(PathAbs(path))],
                                        incFiles[PathAbs(path)].includes, 1,
                                        PathAbs(path), <<>>),
                      Parse(Content(LinesOf(PathAbs(path))), <<"id", "itemId">>),
                      path, PathAbs(path))

(***************************************************************************)
(* Schema files are written, then ParseFile is called on one Parser.       *)
(***************************************************************************)
MaxIncludes == 3

MaxParses == 2

CommonName == <<"common", "-", "types", ".sdl">>

\* the include directives a file may get
IncludeChoices(f) ==
    IF f = MainSdl
    THEN { <<<<"sub">>, <<"geo", ".sdl">>>>, <<CommonName>>,
           <<<<".">>, <<"sub">>, <<"..">>, CommonName>> }
    ELSE IF f = GeoSdl THEN { <<<<"..">>, CommonName>>, <<CommonName>> }
    ELSE {}

\* the paths ParseFile is called with
ParsePaths ==
    { <<<<"a">>, <<"main", ".sdl">>>>, MainSdl, <<<<"a">>, <<"sub">>, <<"geo", ".sdl">>>>,
      <<<<"a">>, <<"sub">>, <<"..">>, CommonName>> }

\* the number of include directives written so far
IncludeCount == Len(incFiles[MainSdl].includes) + Len(incFiles[GeoSdl].includes)

addInclude(f, includePath) ==
    /\ incPc = "editing"
    /\ IncludeCount < MaxIncludes
    /\ incFiles' = [incFiles EXCEPT ![f].includes = Append(@, includePath)]
    /\ UNCHANGED <<incParser, incCalls, incPc, notIncludeVars>>

\* a file that was not there is written
createFile(f) ==
    /\ incPc = "editing"
    /\ ~incFiles[f].exists
    /\ incFiles' = [incFiles EXCEPT ![f].exists = TRUE]
    /\ UNCHANGED <<incParser, incCalls, incPc, notIncludeVars>>

\* a call with an argument without colon is written into the file
spoilFile(f) ==
    /\ incPc = "editing"
    /\ incFiles[f].sound
    /\ incFiles' = [incFiles EXCEPT ![f].sound = FALSE]
    /\ UNCHANGED <<incParser, incCalls, incPc, notIncludeVars>>

\* a ParseFile call on the Parser, as runGenerate makes one per schema file
callParseFile(path) ==
    /\ Len(incCalls) < MaxParses
    /\ incParser' = ParserParseFile(incParser, path).p
    /\ incCalls' = Append(incCalls,
                          [path |-> path,
                           isNil |-> ParserParseFile(incParser, path).isNil,
                           schema |-> ParserParseFile(incParser, path).schema,
                           err |-> ParserParseFile(incParser, path).err])
    /\ incPc' = "parsing"
    /\ UNCHANGED <<incFiles, notIncludeVars>>

\* the process ends; the next one starts with New() and other files
newParser ==
    /\ incPc = "parsing"
    /\ incFiles' = [f \in SdlFiles |->
                       [exists |-> f # SubCommonSdl, includes |-> <<>>, sound |-> TRUE]]
    /\ incParser' = NewParser
    /\ incCalls' = <<>>
    /\ incPc' = "editing"
    /\ UNCHANGED notIncludeVars

NextInclude ==
    \/ \E f \in {MainSdl, GeoSdl} : \E includePath \in IncludeChoices(f) :
           addInclude(f, includePath)
    \/ createFile(SubCommonSdl)
    \/ spoilFile(GeoSdl)
    \/ \E path \in ParsePaths : callParseFile(path)
    \/ newParser

SpecInclude == Init /\ [][NextInclude]_vars

(***************************************************************************)
(* Properties of the includes.                                             *)
(***************************************************************************)
\* C15: every relative include directive is resolved against the directory
\* of the file that contains it, whatever was included before it and
\* whichever ParseFile call of the Parser reaches it.
C15_IncludeResolution ==
    \A k \in DOMAIN incParser.resolved :
        ~PathIsAbs(incParser.resolved[k].include) =>
            incParser.resolved[k].full =
                PathClean(PathDir(incParser.resolved[k].from) \o incParser.resolved[k].include)

\* how often x occurs in the sequence
CountOf(seq, x) == Cardinality({k \in DOMAIN seq : seq[k] = x})

\* the requests for the absolute path, in the order of their answers
AnswersFor(absPath) == SelectSeq(incParser.answers, LAMBDA a : a.path = absPath)

\* the file a path handed to ParseFile names, by the files on disk
FileNamed(path) ==
    CHOOSE f \in SdlFiles :
        \/ path = f
        \/ /\ PathBase(path) = PathBase(f)
           /\ (<<"sub">> \in Range(path) /\ <<"..">> \notin Range(path))
                  = (<<"sub">> \in Range(f))

\* C16: on one Parser, a file is read once per request that finds no cache
\* entry and never by one that does; after the first successful compilation
\* of an absolute path every later request for it, from an include or under
\* another spelling, is answered from the cache with the same Schema value;
\* a failed compilation leaves no cache entry.
C16_IncludeCache ==
    /\ \A f \in SdlFiles \cup Range(incParser.reads) :
           /\ CountOf(incParser.parsed, f) <= 1
           /\ CountOf(incParser.reads, f)
                  = Cardinality({k \in DOMAIN AnswersFor(f) : ~AnswersFor(f)[k].hit})
           /\ \A i, j \in DOMAIN AnswersFor(f) :
                  (i < j /\ AnswersFor(f)[i].ptr # 0) =>
                      /\ AnswersFor(f)[j].hit
                      /\ AnswersFor(f)[j].ptr = AnswersFor(f)[i].ptr
           /\ (f \in DOMAIN incParser.cache)
                  = (\E k \in DOMAIN AnswersFor(f) : AnswersFor(f)[k].ptr # 0)
    /\ \A i, j \in DOMAIN incCalls :
           (i < j /\ FileNamed(incCalls[i].path) = FileNamed(incCalls[j].path)
                  /\ ~incCalls[i].isNil) =>
               /\ ~incCalls[j].isNil
               /\ incCalls[j].schema = incCalls[i].schema

\* main.sdl is compiled with its include, then the included file is asked
\* for under another spelling and comes from the cache; an include that
\* failed in between has no entry
C16_Witness ==
    /\ Len(incCalls) = 2
    /\ ~incCalls[1].isNil
    /\ ~incCalls[2].isNil
    /\ FileNamed(incCalls[1].path) = MainSdl
    /\ incCalls[2].path = <<<<"a">>, <<"sub">>, <<"..">>, CommonName>>
    /\ incCalls[2].schema = incParser.cache[CommonSdl]
    /\ CountOf(incParser.reads, CommonSdl) = 1
    /\ Len(AnswersFor(CommonSdl)) = 3

\* a compilation that failed is tried again by the next call and read again
C16_WitnessFailed ==
    /\ Len(incCalls) = 2
    /\ incCalls[1].isNil
    /\ incCalls[2].isNil
    /\ FileNamed(incCalls[1].path) = GeoSdl
    /\ FileNamed(incCalls[2].path) = GeoSdl
    /\ CountOf(incParser.reads, GeoSdl) = 2
    /\ GeoSdl \notin DOMAIN incParser.cache

\* the namespace the name of an included file stands for
NamespaceOfName(name) ==
    CASE name = <<"geo", ".sdl">> -> "geo"
      [] name = CommonName -> "common_types"
      [] OTHER -> "?"

\* what parseInclude resolved for the directives of the file
ResolvedFrom(f) == SelectSeq(incParser.resolved, LAMBDA r : r.from = f)

\* the file the k-th of the n directives of f was resolved to when f compiled
IncludedFile(f, k, n) == ResolvedFrom(f)[Len(ResolvedFrom(f)) - n + k].full

\* the type name in the text of a type reference
NameIn(typeText) == CHOOSE name \in Range(typeText) \ Punctuation : TRUE

\* the fields of the compiled type or input are the declared ones, with the
\* type names of the text
VerbatimFields(lines, fields) ==
    /\ Len(fields) = Len(lines)
    /\ \A k \in DOMAIN fields : fields[k].Type = NameIn(TextAfterColon(lines[k].text))

VerbatimCalls(lines, calls) ==
    /\ Len(calls) = Len(lines)
    /\ \A k \in DOMAIN calls :
           /\ calls[k].ReturnType = NameIn(lines[k].ret)
           /\ \A a \in DOMAIN calls[k].Args :
                  calls[k].Args[a].Type = NameIn(TextAfterColon(lines[k].args))

CallsOfSchema(f) ==
    CASE f = "contacts" -> <<"CreateA">>
      [] f = "orders" -> <<"GetB">>
      [] OTHER -> <<"CreateA", "GetB">>

RECURSIVE processFrom(_, _, _, _)

\* the end of the loop body for schema file i: the merge error ends the run
\* before anything is written, else the merged text is written and the loop
\* goes on
processMerged(i, out, written, orders, result) ==
    IF result.err # "nil"
    THEN [out |-> out, written |-> written, err |-> "merging", errFile |-> SchemaFiles[i]]
    ELSE processFrom(i + 1,
                     [out EXCEPT ![SchemaFiles[i]] =
                          [state |-> "present", content |-> result.Content]],
                     Append(written, SchemaFiles[i]), orders)

\* the loop of runGenerate over the schema files from file i on
processFrom(i, out, written, orders) ==
    IF i > Len(SchemaFiles)
    THEN [out |-> out, written |-> written, err |-> "nil", errFile |-> ""]
    ELSE processMerged(i, out, written, orders,
                       Merge(Emit(CallsOfSchema(SchemaFiles[i])), out[SchemaFiles[i]].state,
                             out[SchemaFiles[i]].content, orders[i]))

\* the run with the result r of its loop
generated(r) ==
    /\ runOut' = r.out
    /\ runDeps' = TRUE
    /\ runLog' = [ran |-> TRUE, err |-> r.err, errFile |-> r.errFile, written |-> r.written,
                  prior |-> [f \in Range(SchemaFiles) |-> runOut[f].state]]

\* One `restgen generate`: dependencies.go is written when it is not there,
\* then every schema file is parsed, emitted, merged and written in turn;
\* the first error is returned
runGenerateFiles ==
    /\ \E o1 \in MapOrders(runOut[SchemaFiles[1]].state, runOut[SchemaFiles[1]].content) :
       \E o2 \in MapOrders(runOut[SchemaFiles[2]].state, runOut[SchemaFiles[2]].content) :
       \E o3 \in MapOrders(runOut[SchemaFiles[3]].state, runOut[SchemaFiles[3]].content) :
           generated(processFrom(1, runOut, <<>>, <<o1, o2, o3>>))
    /\ UNCHANGED notRunVars

\* the routes file loses its read permission
chmodRoutes(f) ==
    /\ runOut[f].state = "present"
    /\ runOut' = [runOut EXCEPT ![f].state = "unreadable"]
    /\ UNCHANGED <<runDeps, runLog, notRunVars>>

\* the routes file is deleted
removeRoutes(f) ==
    /\ runOut[f].state # "absent"
    /\ runOut' = [runOut EXCEPT ![f] = NoRoutesFile]
    /\ UNCHANGED <<runDeps, runLog, notRunVars>>

NextRun ==
    \/ runGenerateFiles
    \/ \E f \in Range(SchemaFiles) : chmodRoutes(f)
    \/ \E f \in Range(SchemaFiles) : removeRoutes(f)

SpecRun == Init /\ [][NextRun]_vars

\* C20: when the routes file of one schema file is unreadable, the run
\* reports the merge error of that file and still writes the routes files of
\* the other schema files.
C20_MergeErrorIsolation ==
    (runLog.ran /\ \E f \in Range(SchemaFiles) : runLog.prior[f] = "unreadable") =>
        /\ runLog.err = "merging"
        /\ \A g \in Range(SchemaFiles) :
               runLog.prior[g] # "unreadable" => g \in Range(runLog.written)

(***************************************************************************)
(* Further properties of the merge.                                        *)
(***************************************************************************)
\* the body the live section has to hold for the call: the prior one when
\* there is one that is no stub, else the generated one
ExpectedBody(name) ==
    IF name \in DOMAIN PriorMethods /\ ~isGeneratedStub(PriorMethods[name])
    THEN PriorMethods[name]
    ELSE routeStub(name)

\* the names of the methods of a below-marker text, in the order of the text
NamesInOrder(below) ==
    [i \in DOMAIN extractMethodsOrdered(below) |-> extractMethodsOrdered(below)[i].name]

\* C23 - Merge order: the live handler section of the merged content holds
\* one method per method of the generated below-marker region, in the order
\* of the generated text, with the prior body where a prior body exists and
\* is no stub and the generated body otherwise; neither the order of the
\* methods in the prior output nor the order in which the prior methods are
\* visited changes it.
C23_MergeOrder ==
    Merged =>
        /\ LiveSection(lastRun.result.Content) =
               <<nl, nl, Tok("hdrImpl"), nl>>
               \o Flatten([i \in DOMAIN lastRun.calls |->
                              <<nl>> \o ExpectedBody(lastRun.calls[i])])
               \o <<nl, nl>>
        /\ \A order \in MapOrders("present", lastRun.existing) :
               LiveSection(MergeContent(Emit(lastRun.calls), lastRun.existing, order).Content)
                   = LiveSection(lastRun.result.Content)

\* a prior output with its two methods in the other order than the schema
\* has them now, one of them hand-written
C23_Witness ==
    /\ Merged
    /\ Len(lastRun.calls) = 2
    /\ NamesInOrder(LiveSection(lastRun.existing)) = <<lastRun.calls[2], lastRun.calls[1]>>
    /\ ~isGeneratedStub(PriorMethods[lastRun.calls[1]])
    /\ isGeneratedStub(PriorMethods[lastRun.calls[2]])
    /\ NamesInOrder(LiveSection(fileContent)) = lastRun.calls

\* the (name, body) entries the archive of a routes text was written with,
\* in the order of their headers
WrittenEntries(content) ==
    [i \in DOMAIN SelectSeq(ArchiveSection(content), LAMBDA tok : tok.t = "cmtRemoved") |->
        [name |-> SelectSeq(ArchiveSection(content), LAMBDA tok : tok.t = "cmtRemoved")[i].n,
         content |-> ArchiveBody(content,
                         SelectSeq(ArchiveSection(content),
                                   LAMBDA tok : tok.t = "cmtRemoved")[i].n)]]

\* C24 - Archive round trip: extractRemovedSection applied to the
\* below-marker text MergeContent has written returns the (name, body)
\* entries of the archive, in their order.
C24_ArchiveRoundTrip ==
    (lastRun.ran /\ ~lastRun.result.isNil) =>
        extractRemovedSection(splitAtMarker(lastRun.result.Content).below)
            = WrittenEntries(lastRun.result.Content)

\* C27 - Merge determinism: the merge of the same generated and prior text
\* has the same Content, PreservedMethods and RemovedMethods whichever way
\* the prior methods are visited.
C27_MergeDeterminism ==
    Merged =>
        \A order \in MapOrders("present", lastRun.existing) :
            /\ MergeContent(Emit(lastRun.calls), lastRun.existing, order).Content
                   = lastRun.result.Content
            /\ MergeContent(Emit(lastRun.calls), lastRun.existing, order).PreservedMethods
                   = lastRun.result.PreservedMethods
            /\ MergeContent(Emit(lastRun.calls), lastRun.existing, order).RemovedMethods
                   = lastRun.result.RemovedMethods

\* the names of the methods in the live section of the prior output
PriorLiveNames == Range(NamesInOrder(LiveSection(lastRun.existing)))

\* C28 - Removal is reported once: RemovedMethods holds the names of the
\* methods that were live in the prior output and are absent from the
\* generated text, and no others; a method that sits in the archive of the
\* prior output is not reported again.
C28_RemovalReportedOnce ==
    Merged =>
        Range(lastRun.result.RemovedMethods) = PriorLiveNames \ Range(lastRun.calls)

\* C29 - Reinstatement from the archive: a method with a body that is no
\* stub, archived by an earlier regeneration, whose name is in the generated
\* text again, is written into the live section with the archived body, is
\* listed in PreservedMethods, and has no entry in the archive that is
\* written.
C29_Reinstatement ==
    Merged =>
        \A name \in ArchivedNames(lastRun.existing) \cap Range(lastRun.calls) :
            ~isGeneratedStub(ArchiveBody(lastRun.existing, name)) =>
                /\ IsInfix(ArchiveBody(lastRun.existing, name),
                           LiveSection(lastRun.result.Content))
                /\ ~IsInfix(routeStub(name), lastRun.result.Content)
                /\ name \in Range(lastRun.result.PreservedMethods)
                /\ name \notin ArchivedNames(lastRun.result.Content)

\* the README's implementation of GetB comes back from the archive while
\* another method stays there
C29_Witness ==
    /\ Merged
    /\ ArchivedNames(lastRun.existing) = {"CreateA", "GetB"}
    /\ lastRun.calls = <<"GetB">>
    /\ ~isGeneratedStub(ArchiveBody(lastRun.existing, "GetB"))
    /\ IsInfix(ArchiveBody(lastRun.existing, "GetB"), LiveSection(fileContent))
    /\ lastRun.result.PreservedMethods = <<"GetB">>
    /\ ArchivedNames(fileContent) = {"CreateA"}

(***************************************************************************)
(* A routes file whose marker line was deleted.                            *)
(***************************************************************************)
\* The developer deletes the marker line from the routes file.
dropMarker ==
    /\ fileState = "present"
    /\ MarkerIdx(fileContent) # 0
    /\ fileContent' = SubSeq(fileContent, 1, MarkerIdx(fileContent) - 1)
                      \o SubSeq(fileContent, MarkerIdx(fileContent) + 1, Len(fileContent))
    /\ lastRun' = NoRun
    /\ UNCHANGED <<fileState, notFileVars>>

NextMarker ==
    \/ \E calls \in Schemas : runGenerate(calls)
    \/ \E name \in CallNames : \E body \in UserBodies : editHandler(name, body)
    \/ dropMarker

SpecMarker == Init /\ [][NextMarker]_vars

\* the last run merged with a prior routes text that has no marker
MergedUnmarked == Merged /\ MarkerIdx(lastRun.existing) = 0

\* the signatures of handler methods in a text
SigNames(content) == {content[i].n : i \in {j \in DOMAIN content : content[j].t = "sig"}}

\* C30 - Missing marker in prior output: when the prior text has no region
\* marker, its below-marker region is empty: the merge reports no preserved
\* and no removed method, writes no archive, and the handler section of the
\* merged content is the header followed by the generated method of every
\* call, in schema order, with no prior body in it.
C30_MissingMarker ==
    MergedUnmarked =>
        /\ splitAtMarker(lastRun.existing).below = <<>>
        /\ lastRun.result.PreservedMethods = <<>>
        /\ lastRun.result.RemovedMethods = <<>>
        /\ ArchiveSection(lastRun.result.Content) = <<>>
        /\ LiveSection(lastRun.result.Content)
             = <<nl, nl, Tok("hdrImpl"), nl>>
               \o Flatten([i \in DOMAIN lastRun.calls |-> <<nl>> \o routeStub(lastRun.calls[i])])
               \o <<nl, nl>>
        /\ splitAtMarker(lastRun.result.Content).above
             = preserveHandlerStructFields(splitAtMarker(Emit(lastRun.calls)).above,
                                           splitAtMarker(lastRun.existing).above)
               \o <<nl>>

\* a markerless prior text with a hand-written GetB and an archive was merged
\* with a schema that has GetB
C30_Witness ==
    /\ MergedUnmarked
    /\ "GetB" \in SigNames(lastRun.existing)
    /\ ~IsInfix(routeStub("GetB"), lastRun.existing)
    /\ ArchivedNames(lastRun.existing) # {}
    /\ lastRun.calls = <<"GetB">>
    /\ IsInfix(routeStub("GetB"), LiveSection(fileContent))

(***************************************************************************)
(* The directives of a schema file.  A directive line is "# @d("value")"; *)
(* the pattern of Parse asks for at least one character between the       *)
(* quotes, so that a line with an empty value is no match.                 *)
(***************************************************************************)
MaxDirectives == 3

\* `value` is <<v>>, or <<>> for "# @d("")"
DirectiveLine(d, value) == Line("directive", d, <<>>, <<>>, "", <<>>, value)

DirectiveLines ==
    { DirectiveLine("base", v) : v \in {<<"/v1">>, <<"/v2">>, <<>>} }
    \cup { DirectiveLine("models", v) : v \in {<<"pkg/a">>, <<"pkg/b">>, <<>>} }

\* #\s*@d\s*\(\s*"([^"]+)"\s*\) on one line
directiveRe(line, d) == line.kind = "directive" /\ line.name = d /\ line.text # <<>>

RECURSIVE FindLastFrom(_, _, _)
FindLastFrom(content, d, i) ==
    IF i = 0 THEN <<>>
    ELSE IF directiveRe(content[i], d) THEN <<d, content[i].text[1]>>
    ELSE FindLastFrom(content, d, i - 1)

\* A search that returns the last match of the text.
FindStringSubmatchLast(content, d) == FindLastFrom(content, d, Len(content))

RECURSIVE FindFrom(_, _, _)
FindFrom(content, d, i) ==
    IF i > Len(content) THEN <<>>
    ELSE IF directiveRe(content[i], d) THEN <<d, content[i].text[1]>>
    ELSE FindFrom(content, d, i + 1)

\* regexp.FindStringSubmatch: the leftmost match and its group, nil (the
\* empty sequence) when the text has no match
FindStringSubmatch(content, d) == FindFrom(content, d, 1)

\* the two directive statements of Parse, on the Schema s
parseDirectives(content, s) ==
    [s EXCEPT !.Base = IF Len(FindStringSubmatch(content, "base")) > 1
                       THEN FindStringSubmatch(content, "base")[2] ELSE @,
              !.Models = IF Len(FindStringSubmatch(content, "models")) > 1
                         THEN FindStringSubmatch(content, "models")[2] ELSE @]

\* Parse of a text with base and models directives
ParseText(content, order) ==
    parseBlocksFrom(extractBlocks(content), 1, order,
                    [isNil |-> FALSE, schema |-> parseDirectives(content, NoSchema),
                     err |-> NoError])

\* the first directive line is on top of the blocks, the others follow them
DirectiveText(lines) ==
    IF lines = <<>> THEN Content(<<>>)
    ELSE <<Head(lines)>> \o Content(<<>>) \o Tail(lines)

addDirective(line) ==
    /\ sdlPc = "editing"
    /\ Len(sdlLines) < MaxDirectives
    /\ sdlLines' = Append(sdlLines, line)
    /\ UNCHANGED <<sdlResult, sdlPc, notParseVars>>

compileDirectives ==
    /\ sdlPc = "editing"
    /\ \E order \in Perms(ParamNames) :
           sdlResult' = ParseText(DirectiveText(sdlLines), order)
    /\ sdlPc' = "compiled"
    /\ UNCHANGED <<sdlLines, notParseVars>>

NextDirectives ==
    \/ \E line \in DirectiveLines : addDirective(line)
    \/ compileDirectives
    \/ discardText

SpecDirectives == Init /\ [][NextDirectives]_vars

\* the positions of the lines that are a directive d with a value
Matches(d) == {i \in DOMAIN sdlLines : directiveRe(sdlLines[i], d)}

\* the value the Schema has for directive d
Held(d) == IF d = "base" THEN sdlResult.schema.Base ELSE sdlResult.schema.Models

Compiled == sdlPc = "compiled" /\ ~sdlResult.isNil

\* C22 - Duplicate directives, as the code has it: the Schema holds one value
\* for the base path and one for the package reference, and with one or more
\* directives that have a value it is the value of the FIRST of them in the
\* file; without such a directive it is empty.
C22_FirstDirectiveWins ==
    Compiled =>
        \A d \in {"base", "models"} :
            /\ Matches(d) = {} => Held(d) = ""
            /\ \A i \in Matches(d) :
                   (\A j \in Matches(d) : i <= j) => Held(d) = sdlLines[i].text[1]

\* C22 as stated: with more than one directive the value is that of the last.
C22_LastDirectiveWins ==
    Compiled =>
        \A d \in {"base", "models"} :
            \A i \in Matches(d) :
                (\A j \in Matches(d) : j <= i) => Held(d) = sdlLines[i].text[1]

\* two base directives with different values, one before and one after the
\* blocks, were compiled: the Schema has the value of the first
C22_Witness ==
    /\ Compiled
    /\ sdlLines = <<DirectiveLine("base", <<"/v1">>), DirectiveLine("base", <<"/v2">>),
                    DirectiveLine("models", <<"pkg/a">>)>>
    /\ sdlResult.schema.Base = "/v1"
    /\ sdlResult.schema.Models = "pkg/a"

(***************************************************************************)
(* The blocks of a text.  The text is made of header lines, closing        *)
(* braces, opening braces that are no header, and comment lines.           *)
(***************************************************************************)
MaxBlockLines == 7

BraceLine == Line("brace", "", <<>>, <<>>, "", <<>>, <<"{">>)

CommentLine == Line("comment", "", <<>>, <<>>, "", <<>>, <<"#", "sp", "note">>)

BlockLines ==
    {OpenLine("type", "Contact"), OpenLine("input", "ContactInput"), CloseLine,
     BraceLine, CommentLine}

addBlockLine(line) ==
    /\ blkPc = "editing"
    /\ Len(blkText) < MaxBlockLines
    /\ blkText' = Append(blkText, line)
    /\ UNCHANGED <<blkOut, blkPc, notBlockVars>>

extract ==
    /\ blkPc = "editing"
    /\ blkOut' = extractBlocks(blkText)
    /\ blkPc' = "extracted"
    /\ UNCHANGED <<blkText, notBlockVars>>

discardBlocks ==
    /\ blkPc = "extracted"
    /\ blkText' = <<>>
    /\ blkOut' = <<>>
    /\ blkPc' = "editing"
    /\ UNCHANGED notBlockVars

NextBlocks ==
    \/ \E line \in BlockLines : addBlockLine(line)
    \/ extract
    \/ discardBlocks

SpecBlocks == Init /\ [][NextBlocks]_vars

\* the header lines of the text, and the k-th of them
Headers == {i \in DOMAIN blkText : blkText[i].kind = "open"}

HeaderAt(k) == CHOOSE i \in Headers : Cardinality({j \in Headers : j <= i}) = k

\* the braces opened and closed on the lines lo..hi
Opened(lo, hi) == Cardinality({j \in lo..hi : blkText[j].kind \in {"open", "brace"}})

Closed(lo, hi) == Cardinality({j \in lo..hi : blkText[j].kind = "close"})

\* line j has the closing brace that matches the opening brace of header h:
\* what was opened between them is closed, and at no line in between one
\* more was closed than opened
MatchingClose(h, j) ==
    /\ j \in DOMAIN blkText /\ j > h /\ blkText[j].kind = "close"
    /\ Opened(h + 1, j - 1) = Closed(h + 1, j - 1)
    /\ \A m \in (h + 1)..(j - 1) : Closed(h + 1, m) <= Opened(h + 1, m)

\* C25 - Block extraction: extractBlocks yields one block for every header
\* line `type <Name> {` or `input <Name> {` of the text, in source order and
\* with the header's kind and name, whatever the order of the headers and the
\* lines between the blocks; the body of the block of a header that has a
\* matching closing brace is exactly the text between the header's brace and
\* that closing brace, nested braces included.
C25_BlockExtraction ==
    blkPc = "extracted" =>
        /\ Len(blkOut) = Cardinality(Headers)
        /\ \A k \in DOMAIN blkOut :
               /\ blkOut[k].kind = blkText[HeaderAt(k)].text[1]
               /\ blkOut[k].name = blkText[HeaderAt(k)].name
               /\ \A j \in DOMAIN blkText :
                      MatchingClose(HeaderAt(k), j)
                          => blkOut[k].body = SubSeq(blkText, HeaderAt(k) + 1, j - 1)

\* an input block with a nested brace pair, a comment, and a type block
\* after it were extracted, each with its body
C25_Witness ==
    /\ blkPc = "extracted"
    /\ blkText = <<OpenLine("input", "ContactInput"), BraceLine, CloseLine, CloseLine,
                   CommentLine, OpenLine("type", "Contact"), CloseLine>>
    /\ blkOut = <<[kind |-> "input", name |-> "ContactInput", body |-> <<BraceLine, CloseLine>>],
                  [kind |-> "type", name |-> "Contact", body |-> <<>>]>>

(***************************************************************************)
(* The handler name of a call.  A name is the sequence of its bytes, a     *)
(* byte a number below 256.                                                *)
(***************************************************************************)
MaxNameLen == 3

\* a, z, A, Z, 0, 9 and _ : the ends of the ranges of \w
NameBytes == {97, 122, 65, 90, 48, 57, 95}

IsLower(b) == b >= 97 /\ b <= 122

IsUpper(b) == b >= 65 /\ b <= 90

IsDigit(b) == b >= 48 /\ b <= 57

\* (\w+) of the call pattern
wordRe(name) ==
    /\ name # <<>>
    /\ \A i \in DOMAIN name :
           IsLower(name[i]) \/ IsUpper(name[i]) \/ IsDigit(name[i]) \/ name[i] = 95

\* string(b) of a byte: the UTF-8 bytes of the code point b
StringOfByte(b) == IF b < 128 THEN <<b>> ELSE <<192 + (b \div 64), 128 + (b % 64)>>

\* Call.HandlerName; the subtraction is one of bytes
HandlerName(c) ==
    IF Len(c.Name) = 0 THEN <<>>
    ELSE StringOfByte((c.Name[1] + 256 - 32) % 256) \o SubSeq(c.Name, 2, Len(c.Name))

typeByte(b) ==
    /\ hnPc = "editing"
    /\ Len(hnName) < MaxNameLen
    /\ hnName' = Append(hnName, b)
    /\ UNCHANGED <<hnOut, hnPc, notNameVars>>

\* buildTemplateData on the Call of the name
callHandlerName ==
    /\ hnPc = "editing"
    /\ hnOut' = HandlerName([Name |-> hnName])
    /\ hnPc' = "named"
    /\ UNCHANGED <<hnName, notNameVars>>

discardName ==
    /\ hnPc = "named"
    /\ hnName' = <<>>
    /\ hnOut' = <<>>
    /\ hnPc' = "editing"
    /\ UNCHANGED notNameVars

NextNames ==
    \/ \E b \in NameBytes : typeByte(b)
    \/ callHandlerName
    \/ discardName

SpecNames == Init /\ [][NextNames]_vars

\* the upper-case letter of a lower-case letter, every other byte as it is
Capital(b) == IF IsLower(b) THEN b - 32 ELSE b

\* C26 - HandlerName returns the call name with its first letter
\* capitalized and the remaining characters unchanged, for every non-empty
\* name the call pattern accepts, whether it starts with a lower-case
\* letter, an upper-case letter, a digit or an underscore; for the empty
\* name it returns the empty string.
C26_HandlerName ==
    hnPc = "named" =>
        /\ hnName = <<>> => hnOut = <<>>
        /\ wordRe(hnName) =>
               hnOut = <<Capital(hnName[1])>> \o SubSeq(hnName, 2, Len(hnName))

\* the part of C26 that the code has: names that start with a lower-case
\* letter, and the empty name
C26_LowerCaseNames ==
    hnPc = "named" =>
        /\ hnName = <<>> => hnOut = <<>>
        /\ (wordRe(hnName) /\ IsLower(hnName[1])) =>
               hnOut = <<Capital(hnName[1])>> \o SubSeq(hnName, 2, Len(hnName))

(***************************************************************************)
(* ParseFile followed call by call.  The files are in one directory and    *)
(* an include directive names a file of it, so that baseDir is the same    *)
(* for every call.  cyStack has one entry for every ParseFile call that    *)
(* has read its file and is in Parse: the file, and the number of include  *)
(* directives of it that are done.  An error goes back through every       *)
(* caller (parser.go 86-88, 49-51), which is taken as one step.            *)
(***************************************************************************)
MaxDepth == 4

MaxEdges == 3

\* the state of the Parser and of the calls on it
ParserState == [stack |-> cyStack, cache |-> cyCache, out |-> cyOut]

\* A ParseFile that puts the file into the cache before Parse is called.
parseFileOpenCached(st, f) ==
    [st EXCEPT !.stack = Append(@, [file |-> f, done |-> 0]), !.cache = @ \cup {f}]

\* ParseFile after the read: baseDir is set and Parse is called; the cache
\* is as it was
parseFileOpen(st, f) ==
    [st EXCEPT !.stack = Append(@, [file |-> f, done |-> 0])]

\* `return nil, err` of a ParseFile call, and of every call that waits for it
returnError(st) == [st EXCEPT !.stack = <<>>, !.out = "error"]

\* `return s, nil` (or `return cached, nil`) of a ParseFile call: the call
\* from outside has its Schema, or the include loop of the caller goes on
returnSchema(st) ==
    IF st.stack = <<>> THEN [st EXCEPT !.out = "schema"]
    ELSE [st EXCEPT !.stack[Len(st.stack)].done = @ + 1]

\* ParseFile up to the call of Parse
parseFileStart(st, f) ==
    IF f \in st.cache THEN returnSchema(st)
    ELSE IF cyFiles[f].state = "missing" THEN returnError(st)
    ELSE parseFileOpen(st, f)

\* Parse after the include loop, and the end of ParseFile
parseFileFinish(st) ==
    IF cyFiles[st.stack[Len(st.stack)].file].state = "unsound" THEN returnError(st)
    ELSE returnSchema([st EXCEPT !.stack = SubSeq(@, 1, Len(@) - 1),
                                 !.cache = @ \cup {st.stack[Len(st.stack)].file}])

\* the state st becomes the state of the Parser
becomes(st) ==
    /\ cyStack' = st.stack
    /\ cyCache' = st.cache
    /\ cyOut' = st.out
    /\ cyPc' = IF st.out = "none" THEN "running" ELSE "returned"

EdgeCount == Len(cyFiles["a"].includes) + Len(cyFiles["b"].includes) + Len(cyFiles["c"].includes)

\* an include directive for g is written into f
writeInclude(f, g) ==
    /\ cyPc = "editing"
    /\ EdgeCount < MaxEdges
    /\ cyFiles' = [cyFiles EXCEPT ![f].includes = Append(@, g)]
    /\ UNCHANGED <<cyStack, cyCache, cyCall, cyOut, cyPc, notCycleVars>>

\* the file is deleted, or gets a call with an argument without colon
damageFile(f, state) ==
    /\ cyPc = "editing"
    /\ cyFiles[f].state = "ok"
    /\ cyFiles' = [cyFiles EXCEPT ![f].state = state]
    /\ UNCHANGED <<cyStack, cyCache, cyCall, cyOut, cyPc, notCycleVars>>

\* ParseFile is called from outside on a file of the directory
startParseFile(root) ==
    /\ cyPc \in {"editing", "returned"}
    /\ cyCall' = [root |-> root, cache |-> cyCache]
    /\ becomes(parseFileStart([ParserState EXCEPT !.out = "none"], root))
    /\ UNCHANGED <<cyFiles, notCycleVars>>

\* the file of the innermost call, and the include directive it is at
TopFile == cyStack[Len(cyStack)].file

TopInclude == cyFiles[TopFile].includes[cyStack[Len(cyStack)].done + 1]

\* one turn of the include loop of Parse: parseInclude calls ParseFile; a
\* call that goes into Parse needs room on the stack
includeParseFile ==
    /\ cyPc = "running"
    /\ cyStack[Len(cyStack)].done < Len(cyFiles[TopFile].includes)
    /\ (TopInclude \in cyCache \/ cyFiles[TopInclude].state = "missing"
         \/ Len(cyStack) < MaxDepth)
    /\ becomes(parseFileStart(ParserState, TopInclude))
    /\ UNCHANGED <<cyFiles, cyCall, notCycleVars>>

\* the include loop is over: the blocks are parsed and ParseFile returns
finishParseFile ==
    /\ cyPc = "running"
    /\ cyStack[Len(cyStack)].done = Len(cyFiles[TopFile].includes)
    /\ becomes(parseFileFinish(ParserState))
    /\ UNCHANGED <<cyFiles, cyCall, notCycleVars>>

\* the process ends; the next one has other files and a new Parser
endProcess ==
    /\ cyPc = "returned"
    /\ cyFiles' = [f \in CycleFiles |-> [state |-> "ok", includes |-> <<>>]]
    /\ cyStack' = <<>>
    /\ cyCache' = {}
    /\ cyCall' = NoCall
    /\ cyOut' = "none"
    /\ cyPc' = "editing"
    /\ UNCHANGED notCycleVars

\* the steps of a call in progress
StepParseFile == includeParseFile \/ finishParseFile

NextCycle ==
    \/ \E f, g \in CycleFiles : writeInclude(f, g)
    \/ \E state \in {"missing", "unsound"} : damageFile("c", state)
    \/ \E root \in CycleFiles : startParseFile(root)
    \/ includeParseFile
    \/ finishParseFile
    \/ endProcess

\* a call that is in progress goes on: the program does nothing else
SpecCycle == Init /\ [][NextCycle]_vars /\ WF_vars(StepParseFile)

(***************************************************************************)
(* Properties of the include cycles.  What a call does is said from the    *)
(* files alone: the walk over the include directives in their order, with  *)
(* the files on the way from the root kept in `path`.                      *)
(***************************************************************************)
RECURSIVE Walk(_, _, _)
RECURSIVE WalkIncludes(_, _, _, _)
\* the walk from f: "schema" with the files compiled, "error", or "loop"
\* when it comes to a file that is on its own way
Walk(f, cache, path) ==
    IF f \in cache THEN [kind |-> "schema", cache |-> cache]
    ELSE IF cyFiles[f].state = "missing" THEN [kind |-> "error", cache |-> cache]
    ELSE IF f \in path THEN [kind |-> "loop", cache |-> cache]
    ELSE WalkIncludes(f, 1, cache, path \cup {f})

WalkOn(r, f, i, path) ==
    IF r.kind # "schema" THEN r ELSE WalkIncludes(f, i + 1, r.cache, path)

WalkIncludes(f, i, cache, path) ==
    IF i > Len(cyFiles[f].includes)
    THEN (IF cyFiles[f].state = "unsound" THEN [kind |-> "error", cache |-> cache]
          ELSE [kind |-> "schema", cache |-> cache \cup {f}])
    ELSE WalkOn(Walk(cyFiles[f].includes[i], cache, path), f, i, path)

\* the call from outside comes to a file whose compilation is in progress
Loops == cyCall.root # "" /\ Walk(cyCall.root, cyCall.cache, {}).kind = "loop"

\* g is named by an include directive of the file f (a deleted file has
\* none), and the files that can be reached from f over one or more
\* directives
Includes(f, g) == cyFiles[f].state # "missing" /\ g \in Range(cyFiles[f].includes)

Reach1(f) == {g \in CycleFiles : Includes(f, g)}

Reach2(f) == Reach1(f) \cup UNION {Reach1(g) : g \in Reach1(f)}

Reach3(f) == Reach2(f) \cup UNION {Reach1(g) : g \in Reach2(f)}

\* f belongs to an include cycle
InCycle(f) == f \in Reach3(f)

\* no file belongs to an include cycle
Acyclic == \A f \in CycleFiles : ~InCycle(f)

\* a call from outside has returned, with a Schema or with an error
Returned == cyPc = "returned" /\ cyOut \in {"schema", "error"}

\* C21 as the code has it, safety: a ParseFile call that comes, going
\* through the include directives in their order, to a file whose
\* compilation is in progress never returns a Schema or an error, and a
\* call that returns returns what the walk says.
C21_LoopNeverReturns ==
    /\ (cyCall.root # "" /\ Loops) => (cyPc = "running" /\ cyOut = "none")
    /\ Returned => cyOut = Walk(cyCall.root, cyCall.cache, {}).kind

\* C21 - Cyclic includes, as the code has it: such a call recurses without
\* bound (the calls in progress come to every depth) and never returns,
\* because a file is in the cache only when its compilation is over; a call
\* that does not come to a file in progress, as every call when the include
\* graph has no cycle, returns.
C21_CyclicIncludes ==
    /\ [](C21_LoopNeverReturns)
    /\ [](\A f \in CycleFiles : f \in cyCache => \A k \in DOMAIN cyStack : cyStack[k].file # f)
    /\ ((cyPc = "running" /\ Loops) ~> (Len(cyStack) = MaxDepth))
    /\ ((cyPc = "running" /\ ~Loops) ~> Returned)
    /\ [](Acyclic => ~Loops)

\* C21 as stated: a ParseFile call on a file that belongs to an include
\* cycle never returns a Schema or an error.
C21_CycleMemberNeverReturns ==
    (cyCall.root # "" /\ InCycle(cyCall.root)) => ~Returned

\* a includes b and b includes a: the call on a has a and b in progress
\* twice each and has not returned
C21_Witness ==
    /\ cyCall.root = "a"
    /\ cyFiles["a"].includes = <<"c", "b">>
    /\ cyFiles["b"].includes = <<"a">>
    /\ cyFiles["c"].state = "ok"
    /\ "c" \in cyCache
    /\ [k \in DOMAIN cyStack |-> cyStack[k].file] = <<"a", "b", "a", "b">>
    /\ cyOut = "none"

====
